---- MODULE Spec2Model ----
(***************************************************************************)
(* grantbot / browsergymagent: the retry-with-repair loop (llm_utils.py),  *)
(* the agent step (agent.py) and the construction of the composite prompt  *)
(* (dynamic_prompting.py), as one state machine.                           *)
(*                                                                         *)
(* Times are integers counted in ticks of 1/TicksPerSecond seconds, so     *)
(* that the fractional hints the regex accepts ("try again in 7.5s") keep  *)
(* their value.                                                            *)
(***************************************************************************)
EXTENDS Integers, Sequences, FiniteSets, TLC

VARIABLES
    \* ---- parameters of the retry call in progress
    n_retry,                    \* retry(n_retry=...)
    min_retry_wait_time,        \* retry(min_retry_wait_time=...), in ticks
    rate_limit_max_wait_time,   \* retry(rate_limit_max_wait_time=...), in ticks
    parser,                     \* which parser the caller handed to retry
    \* ---- locals of retry
    messages,                   \* the message list (mutated in place)
    tries,
    rate_limit_total_delay,
    wait_time,                  \* wait_time of the RateLimitError being handled
    pc,                         \* position of retry
    value,                      \* what retry returned (None until it returns)
    exception,                  \* what the last call raised (NoException if none)
    \* ---- history variables of the retry call (not read by the code)
    messages0,                  \* the message list as it was at the call
    chat_calls,                 \* chat.invoke calls of this call (saturating)
    rate_limit_errors,          \* RateLimitErrors of this call (saturating)
    last_hint,                  \* the hint the last RateLimitError was built from
    \* ---- WebResearchAgent
    flags,
    obs_history,
    actions,
    memories,
    thoughts,
    main_prompt,                \* the MainPrompt of the get_action call
    built_from,                 \* lengths MainPrompt was last constructed from
    result,                     \* what get_action returned to its caller
    \* ---- prompt elements on their own
    trunkater,                  \* a Trunkater (or HTML, AXTree) element
    trunkater0,                 \* history variable: trunkater as constructed
    diff_args,                  \* the arguments of Diff(...)
    diff_elem,                  \* the Diff element constructed from them
    access,                     \* what the last read of an element returned
    fit_args,                   \* max_prompt_tokens and max_iterations of fit_tokens
    fit,                        \* what the fit_tokens call did and returned
    parse_call                  \* a call of parse_html_tags and of its raising variant

retry_vars == <<n_retry, min_retry_wait_time, rate_limit_max_wait_time, parser,
                messages, tries, rate_limit_total_delay, wait_time, pc, value,
                exception, messages0, chat_calls, rate_limit_errors, last_hint>>

agent_vars == <<flags, obs_history, actions, memories, thoughts, main_prompt,
                built_from, result>>

elem_vars == <<trunkater, trunkater0, diff_args, diff_elem, access, fit_args,
               fit, parse_call>>

vars == <<retry_vars, agent_vars, elem_vars>>

----------------------------------------------------------------------------
(* Bounds of the model *)

\* largest n_retry a retry call is given in SpecRetry
MaxNRetry == 3
\* the history counters chat_calls and rate_limit_errors stop counting here
MaxCount == 6
\* number of get_action calls of one agent
MaxSteps == 3
\* longest history handed to the prompt constructor in SpecPrompt
MaxHist == 2
\* number of shrink() calls made on one Trunkater in SpecTrunkater
MaxShrinkCalls == 14
\* most lines of the content given to a bare Trunkater
MaxLines == 6
\* largest max_line_diff and shrink_speed a Diff is constructed with
MaxLineDiff == 5
MaxShrinkSpeed == 3
\* largest max_iterations fit_tokens is called with
MaxIterations == 12
\* most segments (tags and plain text) of a text handed to parse_html_tags
MaxTextLen == 3

----------------------------------------------------------------------------
(* Small helpers *)

Max(a, b) == IF a >= b THEN a ELSE b

Min(a, b) == IF a <= b THEN a ELSE b

Range(s) == {s[i] : i \in 1..Len(s)}

RECURSIVE Flatten(_)
Flatten(ss) == IF ss = <<>> THEN <<>> ELSE Head(ss) \o Flatten(Tail(ss))

IsPrefix(s, t) == Len(s) <= Len(t) /\ SubSeq(t, 1, Len(s)) = s

\* Python's None, and a value that is not None, as records of one shape
None == [isNone |-> TRUE, v |-> <<>>]

Some(x) == [isNone |-> FALSE, v |-> x]

\* the empty dict
EmptyDict == [k \in {} |-> None]

\* exceptions: the class and the one number its text carries
Exc(class, arg) == [exc |-> class, arg |-> arg]

NoException == Exc("none", 0)

\* A text is a sequence of segments: a tagged one, <key>lines</key>, or plain
\* text (key ""). Every message content, reply and retry message is a text.
Tag(key, lines) == [key |-> key, lines |-> lines]

Plain(lines) == <<Tag("", lines)>>

\* langchain messages
SystemMessage(content) == [role |-> "system", content |-> content]

HumanMessage(content) == [role |-> "human", content |-> content]

AIMessage(content) == [role |-> "ai", content |-> content]

----------------------------------------------------------------------------
(* _extract_wait_time: the error text and the regex                        *)

TicksPerSecond == 10

\* An error text is a sequence of tokens [t, d]: the literal "try again in ",
\* a maximal run of decimal digits (d its digits), ".", "s", or other text.
Lit(t) == [t |-> t, d |-> <<>>]

Digits(d) == [t |-> "digits", d |-> d]

RECURSIVE DigitsValue(_)
DigitsValue(d) ==
    IF d = <<>> THEN 0 ELSE 10 * DigitsValue(SubSeq(d, 1, Len(d) - 1)) + d[Len(d)]

\* float("N") and float("N.F") for a one-digit F, in ticks
FloatTicks(whole, frac) ==
    TicksPerSecond * DigitsValue(whole)
        + (IF frac = <<>> THEN 0 ELSE (frac[1] * TicksPerSecond) \div 10)

\* re.search(r"try again in (\d+(\.\d+)?)s", ...) anchored at token i:
\* the float it captures, or -1 when the pattern does not match there.
MatchAt(e, i) ==
    IF ~(i + 1 <= Len(e) /\ e[i].t = "try again in " /\ e[i + 1].t = "digits")
    THEN -1
    ELSE IF /\ i + 4 <= Len(e)
            /\ e[i + 2].t = "."
            /\ e[i + 3].t = "digits"
            /\ e[i + 4].t = "s"
         THEN FloatTicks(e[i + 1].d, e[i + 3].d)
         ELSE IF i + 2 <= Len(e) /\ e[i + 2].t = "s"
              THEN FloatTicks(e[i + 1].d, <<>>)
              ELSE -1

\* re.search: the leftmost match, or -1
Search(e) ==
    LET hits == {i \in 1..Len(e) : MatchAt(e, i) >= 0}
    IN  IF hits = {} THEN -1
        ELSE MatchAt(e, CHOOSE i \in hits : \A j \in hits : i <= j)

\* variant: the hint is taken as it is, without the floor
ExtractWaitTimeNoFloor(error_message, min_wait) ==
    IF Search(error_message) >= 0 THEN Search(error_message) ELSE min_wait

_extract_wait_time(error_message, min_wait) ==
    IF Search(error_message) >= 0
    THEN Max(min_wait, Search(error_message))
    ELSE min_wait

\* What the chat service says when it is rate limited: nothing about the wait,
\* a wait in seconds, or a wait in milliseconds. ticks is the wait it means.
NoHint == [kind |-> "none", ticks |-> 0]

SecondsHint(ticks) == [kind |-> "s", ticks |-> ticks]

MillisHint(ms) == [kind |-> "ms", ticks |-> ms]

Hints ==
    { NoHint,
      SecondsHint(3 * TicksPerSecond),
      SecondsHint(TicksPerSecond + 5),
      SecondsHint(120 * TicksPerSecond),
      MillisHint(20) }

\* the decimal digits of a natural number
RECURSIVE ToDigits(_)
ToDigits(n) == IF n < 10 THEN <<n>> ELSE ToDigits(n \div 10) \o <<n % 10>>

\* e.args[0] of the RateLimitError for a hint: "... Please try again in 1.5s."
RateLimitErrorText(h) ==
    IF h.kind = "none"
    THEN <<Lit("Rate limit reached."), Lit("Please retry later.")>>
    ELSE IF h.kind = "ms"
    THEN <<Lit("Rate limit reached."), Lit("Please "), Lit("try again in "),
           Digits(ToDigits(h.ticks)), Lit("ms"), Lit(".")>>
    ELSE <<Lit("Rate limit reached."), Lit("Please "), Lit("try again in "),
           Digits(ToDigits(h.ticks \div TicksPerSecond))>>
         \o (IF h.ticks % TicksPerSecond = 0 THEN <<>>
             ELSE <<Lit("."),
                    Digits(ToDigits(((h.ticks % TicksPerSecond) * 10)
                                    \div TicksPerSecond))>>)
         \o <<Lit("s"), Lit(".")>>

----------------------------------------------------------------------------
(* Flags, observations                                                     *)

\* Flags(): the dataclass with its defaults
DefaultFlags ==
    [use_html |-> FALSE, use_ax_tree |-> TRUE, use_screenshot |-> TRUE,
     use_thought |-> TRUE, use_history |-> TRUE, use_memory |-> FALSE,
     use_error_logs |-> TRUE, use_past_error_logs |-> TRUE,
     use_action_history |-> TRUE, use_diff |-> FALSE, multi_actions |-> TRUE,
     action_space |-> "bid"]

\* the Flags values the agents of the model are configured with
FlagsConfigs ==
    { DefaultFlags,
      [DefaultFlags EXCEPT !.use_memory = TRUE, !.use_thought = FALSE],
      [DefaultFlags EXCEPT !.use_html = TRUE, !.use_diff = TRUE,
                           !.use_memory = TRUE] }

\* getattr(flags, name): whether the dataclass has the attribute
HasAttr(fl, name) == name \in DOMAIN fl

KnownActionSpaces ==
    {"bid", "coord", "bid+coord", "bid+nav", "coord+nav", "bid+coord+nav"}

Obs(goal, axtree, html, error) ==
    [goal |-> goal, axtree_txt |-> axtree, pruned_html |-> html,
     last_action_error |-> error, screenshot |-> "img"]

\* the observations the browser hands to the agent
Observations ==
    { Obs("g", <<"a1", "a2">>, <<"h1">>, <<>>),
      Obs("g", <<"a1", "a3">>, <<"h2">>, <<"TimeoutError">>) }

----------------------------------------------------------------------------
(* parse_html_tags, and the parse of the model's answer                    *)

\* re.findall(f"<{key}>(.*?)</{key}>", text): the contents of the segments
\* tagged key, in order of occurrence
RECURSIVE FindAll(_, _)
FindAll(text, key) ==
    IF text = <<>> THEN <<>>
    ELSE (IF Head(text).key = key THEN <<Head(text).lines>> ELSE <<>>)
         \o FindAll(Tail(text), key)

extract_html_tags(text, keys) ==
    [key \in {k \in Range(keys) : FindAll(text, k) # <<>>} |-> FindAll(text, key)]

\* "\n".join(val) of texts given as sequences of lines
JoinLines(val) == Flatten(val)

\* variant: a missing optional key is reported like a missing required one
parse_html_tagsOptionalRequired(text, keys, optional_keys, merge_multiple) ==
    LET all_keys == keys \o optional_keys
        found == extract_html_tags(text, all_keys)
        MessageFor(key) ==
            IF key \notin DOMAIN found
            THEN <<"Missing the key <" \o key \o "> in the answer.">>
            ELSE IF Len(found[key]) > 1 /\ ~merge_multiple
                 THEN <<"Found multiple instances of the key " \o key
                        \o ". You should have only one of them.">>
                 ELSE <<>>
        retry_messages ==
            Flatten([i \in 1..Len(all_keys) |-> MessageFor(all_keys[i])])
    IN  [content_dict |->
             [key \in DOMAIN found |->
                 IF Len(found[key]) > 1 /\ merge_multiple
                 THEN Some(JoinLines(found[key]))
                 ELSE Some(found[key][1])],
         valid |-> retry_messages = <<>>,
         retry_message |-> retry_messages]

\* variant: with merge_multiple the first match is kept and the others dropped
parse_html_tagsKeepsFirst(text, keys, optional_keys, merge_multiple) ==
    LET all_keys == keys \o optional_keys
        found == extract_html_tags(text, all_keys)
        MessageFor(key) ==
            IF key \notin DOMAIN found
            THEN IF key \notin Range(optional_keys)
                 THEN <<"Missing the key <" \o key \o "> in the answer.">>
                 ELSE <<>>
            ELSE IF Len(found[key]) > 1 /\ ~merge_multiple
                 THEN <<"Found multiple instances of the key " \o key
                        \o ". You should have only one of them.">>
                 ELSE <<>>
        retry_messages ==
            Flatten([i \in 1..Len(all_keys) |-> MessageFor(all_keys[i])])
    IN  [content_dict |-> [key \in DOMAIN found |-> Some(found[key][1])],
         valid |-> retry_messages = <<>>,
         retry_message |-> retry_messages]

parse_html_tags(text, keys, optional_keys, merge_multiple) ==
    LET all_keys == keys \o optional_keys
        found == extract_html_tags(text, all_keys)
        MessageFor(key) ==
            IF key \notin DOMAIN found
            THEN IF key \notin Range(optional_keys)
                 THEN <<"Missing the key <" \o key \o "> in the answer.">>
                 ELSE <<>>
            ELSE IF Len(found[key]) > 1 /\ ~merge_multiple
                 THEN <<"Found multiple instances of the key " \o key
                        \o ". You should have only one of them.">>
                 ELSE <<>>
        retry_messages ==
            Flatten([i \in 1..Len(all_keys) |-> MessageFor(all_keys[i])])
    IN  [content_dict |->
             [key \in DOMAIN found |->
                 IF Len(found[key]) > 1 /\ merge_multiple
                 THEN Some(JoinLines(found[key]))
                 ELSE Some(found[key][1])],
         valid |-> retry_messages = <<>>,
         retry_message |-> retry_messages]

\* variant: the raising variant forgets to pass merge_multiple on
parse_html_tags_raiseNoMerge(text, keys, optional_keys, merge_multiple) ==
    LET r == parse_html_tags(text, keys, optional_keys, FALSE)
    IN  IF r.valid
        THEN [raised |-> FALSE, dict |-> r.content_dict, message |-> <<>>]
        ELSE [raised |-> TRUE, dict |-> EmptyDict, message |-> r.retry_message]

\* parse_html_tags_raise: the dict, or the ParseError carrying the message
parse_html_tags_raise(text, keys, optional_keys, merge_multiple) ==
    LET r == parse_html_tags(text, keys, optional_keys, merge_multiple)
    IN  IF r.valid
        THEN [raised |-> FALSE, dict |-> r.content_dict, message |-> <<>>]
        ELSE [raised |-> TRUE, dict |-> EmptyDict, message |-> r.retry_message]

\* HighLevelActionSet.to_python_code: the calls the action set can map to code
KnownActionCalls == {"click('12')", "noop()", "fill('7', 'x')"}

ToPythonCodeFails(action_lines) ==
    action_lines = <<>> \/ \E i \in 1..Len(action_lines) :
                              action_lines[i] \notin KnownActionCalls

\* dict.update
Update(d, e) ==
    [k \in DOMAIN d \cup DOMAIN e |-> IF k \in DOMAIN e THEN e[k] ELSE d[k]]

\* variant: Thought and Memory refuse a tag that is given more than once
OptionalTagParseNoMerge(visible, key, text) ==
    IF visible
    THEN parse_html_tags_raise(text, <<>>, <<key>>, FALSE)
    ELSE [raised |-> FALSE, dict |-> EmptyDict, message |-> <<>>]

\* PromptElement.parse_answer of Thought and Memory: {} when not visible
OptionalTagParse(visible, key, text) ==
    IF visible
    THEN parse_html_tags_raise(text, <<>>, <<key>>, TRUE)
    ELSE [raised |-> FALSE, dict |-> EmptyDict, message |-> <<>>]

\* ActionSpace._parse_answer
ActionSpaceParse(text) ==
    LET r == parse_html_tags_raise(text, <<"action">>, <<>>, TRUE)
    IN  IF r.raised THEN r
        ELSE IF ToPythonCodeFails(r.dict["action"].v)
             THEN [raised |-> TRUE, dict |-> EmptyDict,
                   message |-> <<"Error while parsing action", ": unknown action",
                     "Make sure your answer is restricted to the allowed actions.">>]
             ELSE r

\* MainPrompt.parse_answer (MainPrompt is always visible)
MainPromptParse(fl, text) ==
    LET th == OptionalTagParse(fl.use_thought, "think", text)
        me == OptionalTagParse(fl.use_memory, "memory", text)
        ac == ActionSpaceParse(text)
    IN  IF th.raised THEN th
        ELSE IF me.raised THEN me
        ELSE IF ac.raised THEN ac
        ELSE [raised |-> FALSE,
              dict |-> Update(Update(th.dict, me.dict), ac.dict),
              message |-> <<>>]

\* WebResearchAgent.create_parser: ParseError becomes ({}, False, str(e))
AgentParser(fl, text) ==
    LET r == MainPromptParse(fl, text)
    IN  IF r.raised
        THEN [value |-> Some(EmptyDict), valid |-> FALSE,
              retry_message |-> Plain(r.message)]
        ELSE [value |-> Some(r.dict), valid |-> TRUE,
              retry_message |-> Plain(<<>>)]

\* the replies the chat model gives the agent
AgentReplies ==
    { <<Tag("think", <<"t1">>), Tag("action", <<"click('12')">>)>>,
      <<Tag("memory", <<"m1">>), Tag("action", <<"click('12')">>),
        Tag("action", <<"noop()">>)>>,
      Plain(<<"I will click.">>),
      <<Tag("think", <<"t2">>), Tag("action", <<"fly()">>)>> }

----------------------------------------------------------------------------
(* Strings with newlines, PromptElement visibility, Trunkater              *)

\* A str is a sequence of pieces: the newline, or a run of text without one
NL == "\n"

RECURSIVE Cat(_)
Cat(pieces) == IF pieces = <<>> THEN "" ELSE Head(pieces) \o Cat(Tail(pieces))

\* the k-th smallest element of a set of numbers
Kth(S, k) == CHOOSE j \in S : Cardinality({x \in S : x < j}) = k - 1

\* str.splitlines(): a line starts at the first piece and after every newline
\* but a final one, and runs up to the next newline
splitlines(s) ==
    LET newlines == {i \in 1..Len(s) : s[i] = NL}
        starts == {j \in {1} \cup {i + 1 : i \in newlines} : j <= Len(s)}
        End(j) == IF \E i \in newlines : i >= j
                  THEN CHOOSE i \in newlines :
                           i >= j /\ \A h \in newlines : h >= j => i <= h
                  ELSE Len(s) + 1
    IN  [k \in 1..Cardinality(starts) |->
            Cat(SubSeq(s, Kth(starts, k), End(Kth(starts, k)) - 1))]

\* "\n".join(lines): every line but an empty one is a piece, with a newline
\* between two lines
NewlineJoin(lines) ==
    LET Offset(k) == Cardinality({j \in 1..(k - 1) : lines[j] # ""}) + (k - 1)
        length == IF lines = <<>> THEN 0 ELSE Offset(Len(lines) + 1) - 1
    IN  [p \in 1..length |->
            IF \E k \in 1..Len(lines) : lines[k] # "" /\ Offset(k) + 1 = p
            THEN lines[CHOOSE k \in 1..Len(lines) :
                           lines[k] # "" /\ Offset(k) + 1 = p]
            ELSE NL]

\* PromptElement(visible=...): a bool (or a value taken for its truth), or a
\* callable: the conjunction of the flags it reads when called and of the
\* truth of the data it has captured
Static(b) == [callable |-> FALSE, b |-> b, reads |-> {}]

Lambda(reads, captured) == [callable |-> TRUE, b |-> captured, reads |-> reads]

\* variant: a callable is taken for its own truth value, without calling it
is_visibleCallableTruthy(visible, fl) ==
    IF visible.callable THEN TRUE ELSE visible.b

\* PromptElement.is_visible
is_visible(visible, fl) ==
    IF visible.callable
    THEN visible.b /\ \A name \in visible.reads : fl[name]
    ELSE visible.b

\* variant: an element is rendered whatever its visibility
HideNever(visible, fl, val) == val

\* PromptElement._hide
Hide(visible, fl, val) == IF is_visible(visible, fl) THEN val ELSE <<>>

\* Trunkater.__init__; shrink_speed in tenths
ShrinkSpeedTenths == 3

DefaultStartTrunkateIteration == 10

Trunkater(visible, shrink_speed, start_trunkate_iteration) ==
    [visible |-> visible, shrink_speed |-> shrink_speed,
     start_trunkate_iteration |-> start_trunkate_iteration,
     shrink_calls |-> 0, deleted_lines |-> 0, _prompt |-> <<>>]

\* the footer line of a truncated content
Footer(deleted_lines) ==
    "... Deleted " \o ToString(deleted_lines) \o " lines to reduce prompt size."

\* int(len(lines) * (1 - shrink_speed))
NewLineCount(n, shrink_speed) == (n * (10 - shrink_speed)) \div 10

\* the truncating branch of shrink, for the lines of the content:
\* deleted_lines is the counter after the call
Truncated(t, lines, deleted_lines) ==
    [t EXCEPT !.deleted_lines = deleted_lines,
              !._prompt =
                  NewlineJoin(SubSeq(lines, 1,
                                     NewLineCount(Len(lines), t.shrink_speed)))
                      \o <<NL, Footer(deleted_lines)>>,
              !.shrink_calls = @ + 1]

\* len(lines) - new_line_count
DeletedByCall(t, lines) ==
    Len(lines) - NewLineCount(Len(lines), t.shrink_speed)

\* variant: truncation begins one call later
TrunkaterShrinkLate(t, fl) ==
    IF is_visible(t.visible, fl) /\ t.shrink_calls > t.start_trunkate_iteration
    THEN CHOOSE r \in { Truncated(t, lines,
                                  t.deleted_lines + DeletedByCall(t, lines)) :
                            lines \in {splitlines(t._prompt)} } : TRUE
    ELSE [t EXCEPT !.shrink_calls = @ + 1]

\* variant: the counter holds the lines deleted by the last call only
TrunkaterShrinkLastDeleted(t, fl) ==
    IF is_visible(t.visible, fl) /\ t.shrink_calls >= t.start_trunkate_iteration
    THEN CHOOSE r \in { Truncated(t, lines, DeletedByCall(t, lines)) :
                            lines \in {splitlines(t._prompt)} } : TRUE
    ELSE [t EXCEPT !.shrink_calls = @ + 1]

\* Trunkater.shrink; lines is self._prompt.splitlines()
TrunkaterShrink(t, fl) ==
    IF is_visible(t.visible, fl) /\ t.shrink_calls >= t.start_trunkate_iteration
    THEN CHOOSE r \in { Truncated(t, lines,
                                  t.deleted_lines + DeletedByCall(t, lines)) :
                            lines \in {splitlines(t._prompt)} } : TRUE
    ELSE [t EXCEPT !.shrink_calls = @ + 1]

\* HTML(html, visible, prefix) and AXTree(ax_tree, visible, coord_type, prefix)
HTMLStartTrunkateIteration == 5

AXTreeStartTrunkateIteration == 10

HTML(html, visible, prefix) ==
    [Trunkater(visible, ShrinkSpeedTenths, HTMLStartTrunkateIteration)
        EXCEPT !._prompt = <<NL, prefix \o "HTML:", NL>> \o html \o <<NL>>]

CoordNote(coord_type) ==
    IF coord_type = "center"
    THEN <<"Note: center coordinates are provided in parenthesis and are", NL,
           "  relative to the top left corner of the page.", NL, NL>>
    ELSE IF coord_type = "box"
    THEN <<"Note: bounding box of each object are provided in parenthesis and are",
           NL, "  relative to the top left corner of the page.", NL, NL>>
    ELSE <<>>

AXTree(ax_tree, visible, coord_type, prefix) ==
    [Trunkater(visible, ShrinkSpeedTenths, AXTreeStartTrunkateIteration)
        EXCEPT !._prompt = <<NL, prefix \o "AXTree:", NL>> \o CoordNote(coord_type)
                               \o ax_tree \o <<NL>>]

\* no element under test
NoTrunkater == Trunkater(Static(FALSE), ShrinkSpeedTenths, 0)

----------------------------------------------------------------------------
(* diff and the Diff element                                               *)

\* SequenceMatcher.find_longest_match on a[alo..ahi], b[blo..bhi]: the longest
\* common block <<i, j, k>>, the earliest in a and then in b among the longest
LongestMatch(a, alo, ahi, b, blo, bhi) ==
    LET cands ==
            {c \in (alo..ahi) \X (blo..bhi)
                       \X (1..Min(ahi - alo + 1, bhi - blo + 1)) :
                /\ c[1] + c[3] - 1 <= ahi
                /\ c[2] + c[3] - 1 <= bhi
                /\ \A d \in 0..(c[3] - 1) : a[c[1] + d] = b[c[2] + d]}
        Better(c, e) ==
            \/ c[3] > e[3]
            \/ c[3] = e[3] /\ (c[1] < e[1] \/ (c[1] = e[1] /\ c[2] <= e[2]))
    IN  IF cands = {} THEN <<alo, blo, 0>>
        ELSE CHOOSE c \in cands : \A e \in cands : Better(c, e)

\* the lines x[lo..hi] of ndiff's output with one tag: "+", "-" or " "
Dump(tag, x, lo, hi) ==
    [k \in 1..(hi - lo + 1) |-> [tag |-> tag, text |-> x[lo + k - 1]]]

\* difflib.ndiff(a, b) for lines none of which resembles another: the
\* matching blocks are kept, the gaps between them are deleted, inserted or
\* replaced (the shorter side first)
RECURSIVE Ndiff(_, _, _, _, _, _)
Ndiff(a, alo, ahi, b, blo, bhi) ==
    IF alo > ahi THEN Dump("+", b, blo, bhi)
    ELSE IF blo > bhi THEN Dump("-", a, alo, ahi)
    ELSE LET m == LongestMatch(a, alo, ahi, b, blo, bhi)
         IN  IF m[3] = 0
             THEN IF bhi - blo < ahi - alo
                  THEN Dump("+", b, blo, bhi) \o Dump("-", a, alo, ahi)
                  ELSE Dump("-", a, alo, ahi) \o Dump("+", b, blo, bhi)
             ELSE Ndiff(a, alo, m[1] - 1, b, blo, m[2] - 1)
                  \o Dump(" ", a, m[1], m[1] + m[3] - 1)
                  \o Ndiff(a, m[1] + m[3], ahi, b, m[2] + m[3], bhi)

\* the texts of the model whose first character is "+", is "-"
PlusTexts == {"+c"}

MinusTexts == {"-d"}

\* line.strip().startswith(sign) for a line of ndiff: tag, blank, text
StripStartsWith(line, sign) ==
    IF line.tag # " " THEN line.tag = sign
    ELSE line.text \in (IF sign = "+" THEN PlusTexts ELSE MinusTexts)

DiffLine(line) == line.tag \o " " \o line.text

\* diff(previous, new); the snapshots are None or Some(str)
diff(previous, new) ==
    IF previous = new
    THEN [exc |-> NoException, header |-> "Identical", diff_lines |-> <<>>]
    ELSE IF previous.isNone
    THEN [exc |-> Exc("TypeError", 0), header |-> "", diff_lines |-> <<>>]
    ELSE IF Len(previous.v) = 0
    THEN [exc |-> NoException, header |-> "previous is empty",
          diff_lines |-> <<>>]
    ELSE IF new.isNone
    THEN [exc |-> Exc("AttributeError", 0), header |-> "", diff_lines |-> <<>>]
    ELSE LET a == splitlines(previous.v)
             b == splitlines(new.v)
             diff_gen == Ndiff(a, 1, Len(a), b, 1, Len(b))
             Kept(lines) ==
                 SelectSeq(lines, LAMBDA line : StripStartsWith(line, "+")
                                                \/ StripStartsWith(line, "-"))
             PlusCount(kept) ==
                 Cardinality({i \in 1..Len(kept) : StripStartsWith(kept[i], "+")})
             Result(kept, plus_count) ==
                 [exc |-> NoException,
                  header |-> ToString(plus_count) \o " lines added and "
                                 \o ToString(Len(kept) - plus_count)
                                 \o " lines removed:",
                  diff_lines |-> [i \in 1..Len(kept) |-> DiffLine(kept[i])]]
         IN  CHOOSE r \in { Result(kept, PlusCount(kept)) :
                                kept \in {Kept(diff_gen)} } : TRUE

DefaultMaxLineDiff == 20

DefaultDiffShrinkSpeed == 2

\* Diff.__init__
DiffInit(previous, new, prefix, max_line_diff, shrink_speed, visible) ==
    CHOOSE r \in { [built |-> d.exc.exc = "none", exc |-> d.exc,
                     visible |-> visible, max_line_diff |-> max_line_diff,
                     header |-> d.header, diff_lines |-> d.diff_lines,
                     shrink_speed |-> shrink_speed, prefix |-> prefix] :
                       d \in {diff(previous, new)} } : TRUE

\* variant: max_line_diff is lowered without the floor
DiffShrinkNoFloor(d) == [d EXCEPT !.max_line_diff = @ - d.shrink_speed]

\* Diff.shrink
DiffShrink(d) == [d EXCEPT !.max_line_diff = Max(1, @ - d.shrink_speed)]

DiffArgs(previous, new, prefix, max_line_diff, shrink_speed, visible) ==
    [previous |-> previous, new |-> new, prefix |-> prefix,
     max_line_diff |-> max_line_diff, shrink_speed |-> shrink_speed,
     visible |-> visible]

NoDiffArgs ==
    DiffArgs(None, None, "", DefaultMaxLineDiff, DefaultDiffShrinkSpeed,
             Static(TRUE))

NoDiff ==
    [built |-> FALSE, exc |-> NoException, visible |-> Static(TRUE),
     max_line_diff |-> DefaultMaxLineDiff, header |-> "", diff_lines |-> <<>>,
     shrink_speed |-> DefaultDiffShrinkSpeed, prefix |-> ""]

InitTrunkaterVars ==
    /\ trunkater = NoTrunkater
    /\ trunkater0 = NoTrunkater

InitDiffVars ==
    /\ diff_args = NoDiffArgs
    /\ diff_elem = NoDiff

\* fit_tokens was not called yet
NoFit ==
    [done |-> FALSE, prompt |-> <<>>, shrinks |-> 0, exc |-> NoException,
     root0 |-> <<>>]

DefaultMaxIterations == 20

\* fit_tokens(shrinkable): max_prompt_tokens=None, max_iterations=20
DefaultFitArgs ==
    [max_prompt_tokens |-> None, max_iterations |-> DefaultMaxIterations]

\* no property of an element was read yet
NoAccess ==
    [elem |-> "", answer |-> <<>>, prompt |-> <<>>, abstract_ex |-> <<>>,
     concrete_ex |-> <<>>,
     parsed |-> [raised |-> FALSE, dict |-> EmptyDict, message |-> <<>>],
     parser_out |-> [value |-> None, valid |-> FALSE, retry_message |-> <<>>],
     previous |-> [elem |-> "", prompt |-> <<>>]]

\* parse_html_tags was not called yet
NoParseCall ==
    [text |-> <<>>, keys |-> <<>>, optional_keys |-> <<>>,
     merge_multiple |-> FALSE, returned |-> FALSE,
     out |-> parse_html_tags(<<>>, <<>>, <<>>, FALSE),
     raise_returned |-> FALSE,
     raise_out |-> parse_html_tags_raise(<<>>, <<>>, <<>>, FALSE)]

InitAccessVars ==
    /\ access = NoAccess
    /\ fit = NoFit
    /\ parse_call = NoParseCall

InitElemVars ==
    /\ InitTrunkaterVars
    /\ InitDiffVars
    /\ InitAccessVars
    /\ fit_args = DefaultFitArgs

----------------------------------------------------------------------------
(* The elements of MainPrompt: construction and rendering                 *)

\* a str as a text of one plain segment
TextOf(str) == IF str = <<>> THEN <<>> ELSE Plain(splitlines(str))

\* seq[:n] of Python: a negative n counts from the end
SliceTo(seq, n) ==
    IF n >= 0 THEN SubSeq(seq, 1, Min(n, Len(seq)))
    ELSE SubSeq(seq, 1, Max(Len(seq) + n, 0))

\* the note Diff._prompt appends for hidden changed lines
TruncationNote(hidden) ==
    "Diff truncated, " \o ToString(hidden) \o " changes now shown."

\* variant: the note counts every changed line, shown or not
DiffPromptNoteCountsAll(d) ==
    LET shown == SliceTo(d.diff_lines, d.max_line_diff)
        note == IF Len(d.diff_lines) > d.max_line_diff
                THEN <<TruncationNote(Len(d.diff_lines))>>
                ELSE <<>>
    IN  Plain(<<"", d.prefix, d.header>> \o shown \o note)

\* Diff._prompt: prefix, header, the first max_line_diff changed lines and,
\* when there are more, the truncation note
DiffPrompt(d) ==
    LET shown == SliceTo(d.diff_lines, d.max_line_diff)
        note == IF Len(d.diff_lines) > d.max_line_diff
                THEN <<TruncationNote(Len(d.diff_lines) - d.max_line_diff)>>
                ELSE <<>>
    IN  Plain(<<"", d.prefix, d.header>> \o shown \o note)

\* variant: the Error element does not take the visibility it is given
ErrorElementAlwaysVisible(error, visible, prefix) ==
    [visible |-> Static(TRUE),
     _prompt |-> Plain(<<"", prefix \o "Error from previous action:">> \o error)]

\* Error(error, visible, prefix): the error is a text given by its lines
ErrorElement(error, visible, prefix) ==
    [visible |-> visible,
     _prompt |-> Plain(<<"", prefix \o "Error from previous action:">> \o error)]

\* HistoryStep.__init__: reads flags.html_type, which Flags does not define
HistoryStepInit(previous_obs, current_obs, action, memory, fl) ==
    IF ~HasAttr(fl, "html_type")
    THEN [exc |-> Exc("AttributeError", 0), step |-> <<>>]
    ELSE LET html_diff ==
                 DiffInit(Some(NewlineJoin(previous_obs[fl.html_type])),
                          Some(NewlineJoin(current_obs[fl.html_type])),
                          "### HTML diff:", DefaultMaxLineDiff, 1,
                          Static(fl.use_html /\ fl.use_diff))
             ax_tree_diff ==
                 DiffInit(Some(NewlineJoin(previous_obs.axtree_txt)),
                          Some(NewlineJoin(current_obs.axtree_txt)),
                          "### Accessibility tree diff:", DefaultMaxLineDiff, 1,
                          Static(fl.use_ax_tree /\ fl.use_diff))
         IN  [exc |-> NoException,
              step |-> <<[previous_obs |-> previous_obs,
                          current_obs |-> current_obs,
                          action |-> action, memory |-> memory,
                          html_diff |-> html_diff,
                          ax_tree_diff |-> ax_tree_diff,
                          error |->
                              ErrorElement(current_obs.last_action_error,
                                  Lambda({"use_error_logs", "use_past_error_logs"},
                                         current_obs.last_action_error # <<>>),
                                  "### ")]>>]

\* the loop of History.__init__, from step i on (i counts from 1 as there)
RECURSIVE BuildHistorySteps(_, _, _, _, _, _)
BuildHistorySteps(history_obs, acts, mems, fl, i, built) ==
    IF i > Len(history_obs) - 1
    THEN [exc |-> NoException, history_steps |-> built]
    ELSE IF i > Len(acts) \/ i > Len(mems)
         THEN [exc |-> Exc("IndexError", 0), history_steps |-> built]
         ELSE CHOOSE r \in
                  { IF s.exc.exc # "none"
                    THEN [exc |-> s.exc, history_steps |-> built]
                    ELSE BuildHistorySteps(history_obs, acts, mems, fl, i + 1,
                                           built \o s.step) :
                        s \in {HistoryStepInit(history_obs[i], history_obs[i + 1],
                                               acts[i], mems[i], fl)} } : TRUE

\* variant: History.__init__ without its two assertions
HistoryInitNoAssert(history_obs, acts, mems, fl) ==
    BuildHistorySteps(history_obs, acts, mems, fl, 1, <<>>)

\* History.__init__: the two assertions, then one HistoryStep per past step
HistoryInit(history_obs, acts, mems, fl) ==
    IF Len(history_obs) # Len(acts) + 1 \/ Len(history_obs) # Len(mems) + 1
    THEN [exc |-> Exc("AssertionError", 0), history_steps |-> <<>>]
    ELSE BuildHistorySteps(history_obs, acts, mems, fl, 1, <<>>)

\* the names of the elements MainPrompt owns, itself included
ElementNames ==
    {"main", "instructions", "obs", "html", "ax_tree", "error", "history",
     "action_space", "thought", "memory"}

\* a MainPrompt that was not constructed
NoMainPrompt ==
    [exc |-> NoException, built |-> FALSE, history_steps |-> <<>>,
     goal |-> "", screenshot |-> "",
     html |-> NoTrunkater, ax_tree |-> NoTrunkater,
     error |-> ErrorElement(<<>>, Static(FALSE), ""),
     visible |-> [name \in ElementNames |-> Static(FALSE)]]

\* Observation.__init__ and the elements MainPrompt.__init__ makes after
\* History; Observation, GoalInstructions, ActionSpace and MainPrompt itself
\* keep the default visible=True
MainPromptElements(history_steps, current_obs, fl) ==
    [exc |-> NoException, built |-> TRUE, history_steps |-> history_steps,
     goal |-> current_obs.goal, screenshot |-> current_obs.screenshot,
     html |-> HTML(NewlineJoin(current_obs.pruned_html), Static(fl.use_html),
                   "## "),
     ax_tree |-> AXTree(NewlineJoin(current_obs.axtree_txt),
                        Static(fl.use_ax_tree), "none", "## "),
     error |-> ErrorElement(current_obs.last_action_error,
                            Static(fl.use_error_logs
                                   /\ current_obs.last_action_error # <<>>),
                            "## "),
     visible |->
         [name \in ElementNames |->
             IF name = "history" THEN Lambda({"use_history"}, TRUE)
             ELSE IF name = "thought" THEN Static(fl.use_thought)
             ELSE IF name = "memory" THEN Static(fl.use_memory)
             ELSE IF name = "html" THEN Static(fl.use_html)
             ELSE IF name = "ax_tree" THEN Static(fl.use_ax_tree)
             ELSE IF name = "error"
                  THEN Static(fl.use_error_logs
                              /\ current_obs.last_action_error # <<>>)
             ELSE Static(TRUE)]]

\* MainPrompt.__init__: History first, then the elements of the current step
\* (obs_history[-1] of an empty list is an IndexError)
MainPromptInit(history_obs, acts, mems, fl) ==
    CHOOSE mp \in
        { IF history.exc.exc # "none"
          THEN [NoMainPrompt EXCEPT !.exc = history.exc,
                                    !.history_steps = history.history_steps]
          ELSE IF Len(history_obs) = 0
               THEN [NoMainPrompt EXCEPT !.exc = Exc("IndexError", 0),
                                         !.history_steps = history.history_steps]
          ELSE IF fl.action_space \notin KnownActionSpaces
               THEN [NoMainPrompt EXCEPT !.exc = Exc("NotImplementedError", 0),
                                         !.history_steps = history.history_steps]
               ELSE MainPromptElements(history.history_steps,
                                       history_obs[Len(history_obs)], fl) :
              history \in {HistoryInit(history_obs, acts, mems, fl)} } : TRUE

\* the class attributes _prompt, _abstract_ex and _concrete_ex of Thought and
\* Memory, and the three texts ActionSpace.__init__ builds
ThoughtAbstractEx ==
    <<Tag("think", <<"Step-by-step thoughts including, for example, calculations on coordinates.">>)>>

ThoughtConcreteEx ==
    <<Tag("think", <<"My memory says that I filled the first name and last name, but I can't see any">>)>>

MemoryAbstractEx ==
    <<Tag("memory", <<"A list of things to remember for next steps.">>)>>

MemoryConcreteEx ==
    <<Tag("memory", <<"I clicked on bid 32 to activate tab 2. The accessibility tree should mention">>)>>

ActionSpacePrompt(fl) ==
    Plain(<<"# Action space:", "actions of " \o fl.action_space>>)

ActionSpaceAbstractEx == <<Tag("action", <<"one_action(arguments)">>)>>

ActionSpaceConcreteEx == <<Tag("action", <<"click('12')">>)>>

GoalInstructionsPrompt(goal) ==
    Plain(<<"# Instructions",
            "Review the current state of the page and all other information to find the best",
            "", "## Goal:", goal>>)

\* HistoryStep._prompt
HistoryStepPrompt(step, fl) ==
    (IF fl.use_action_history
     THEN Plain(<<"", "### Action:">>
                \o (IF step.action.isNone THEN <<"None">> ELSE step.action.v))
     ELSE <<>>)
    \o Hide(step.error.visible, fl, step.error._prompt)
    \o Hide(step.html_diff.visible, fl, DiffPrompt(step.html_diff))
    \o Hide(step.ax_tree_diff.visible, fl, DiffPrompt(step.ax_tree_diff))
    \o (IF fl.use_memory /\ ~step.memory.isNone
        THEN Plain(<<"", "### Memory:">> \o step.memory.v)
        ELSE <<>>)

\* the own text of an element: its _prompt, _abstract_ex, _concrete_ex.
\* HistoryStep takes the default visible=True.
OwnAbstractEx(name) ==
    IF name = "thought" THEN ThoughtAbstractEx
    ELSE IF name = "memory" THEN MemoryAbstractEx
    ELSE IF name = "action_space" THEN ActionSpaceAbstractEx
    ELSE <<>>

OwnConcreteEx(name) ==
    IF name = "thought" THEN ThoughtConcreteEx
    ELSE IF name = "memory" THEN MemoryConcreteEx
    ELSE IF name = "action_space" THEN ActionSpaceConcreteEx
    ELSE <<>>

\* Observation._prompt
ObservationPrompt(mp, fl) ==
    Plain(<<"", "# Observation of current step:">>)
    \o Hide(mp.html.visible, fl, TextOf(mp.html._prompt))
    \o Hide(mp.ax_tree.visible, fl, TextOf(mp.ax_tree._prompt))
    \o Hide(mp.error.visible, fl, mp.error._prompt)
    \o Plain(<<"", "">>)

\* History._prompt
HistoryPrompt(mp, fl) ==
    Plain(<<"# History of interaction with the task:", "">>)
    \o Flatten([i \in 1..Len(mp.history_steps) |->
                   Plain(<<"## step " \o ToString(i - 1)>>)
                   \o HistoryStepPrompt(mp.history_steps[i], fl)])

\* Observation.add_screenshot: the prompt becomes a list of a text part and
\* an image part; the image part is the segment with the key "image_url"
add_screenshot(mp, fl, prompt) ==
    IF fl.use_screenshot
    THEN prompt \o <<Tag("image_url", <<mp.screenshot>>)>>
    ELSE prompt

\* MainPrompt._prompt
MainPromptPrompt(mp, fl) ==
    add_screenshot(mp, fl,
        Hide(mp.visible["instructions"], fl, GoalInstructionsPrompt(mp.goal))
        \o Hide(mp.visible["obs"], fl, ObservationPrompt(mp, fl))
        \o Hide(mp.visible["history"], fl, HistoryPrompt(mp, fl))
        \o Hide(mp.visible["action_space"], fl, ActionSpacePrompt(fl))
        \o Hide(mp.visible["thought"], fl, <<>>)
        \o Hide(mp.visible["memory"], fl, <<>>)
        \o Plain(<<"", "# Abstract Example", "">>)
        \o Hide(mp.visible["thought"], fl, OwnAbstractEx("thought"))
        \o Hide(mp.visible["memory"], fl, OwnAbstractEx("memory"))
        \o Hide(mp.visible["action_space"], fl, OwnAbstractEx("action_space"))
        \o Plain(<<"", "# Concrete Example", "">>)
        \o Hide(mp.visible["thought"], fl, OwnConcreteEx("thought"))
        \o Hide(mp.visible["memory"], fl, OwnConcreteEx("memory"))
        \o Hide(mp.visible["action_space"], fl, OwnConcreteEx("action_space")))

OwnPrompt(mp, fl, name) ==
    IF name = "main" THEN MainPromptPrompt(mp, fl)
    ELSE IF name = "instructions" THEN GoalInstructionsPrompt(mp.goal)
    ELSE IF name = "obs" THEN ObservationPrompt(mp, fl)
    ELSE IF name = "html" THEN TextOf(mp.html._prompt)
    ELSE IF name = "ax_tree" THEN TextOf(mp.ax_tree._prompt)
    ELSE IF name = "error" THEN mp.error._prompt
    ELSE IF name = "history" THEN HistoryPrompt(mp, fl)
    ELSE IF name = "action_space" THEN ActionSpacePrompt(fl)
    ELSE <<>>

\* _parse_answer of an element: {} unless the class overrides it
OwnParse(fl, name, text) ==
    IF name = "thought" THEN parse_html_tags_raise(text, <<>>, <<"think">>, TRUE)
    ELSE IF name = "memory"
         THEN parse_html_tags_raise(text, <<>>, <<"memory">>, TRUE)
    ELSE IF name = "action_space" THEN ActionSpaceParse(text)
    ELSE IF name = "main" THEN MainPromptParse(fl, text)
    ELSE [raised |-> FALSE, dict |-> EmptyDict, message |-> <<>>]

\* variant: parse_answer that parses whether the element is visible or not
parse_answerAlways(visible, fl, own) == own

\* PromptElement.parse_answer
parse_answer(visible, fl, own) ==
    IF is_visible(visible, fl)
    THEN own
    ELSE [raised |-> FALSE, dict |-> EmptyDict, message |-> <<>>]

ParseAnswer(mp, fl, name, text) ==
    parse_answer(mp.visible[name], fl, OwnParse(fl, name, text))

\* the parser made by WebResearchAgent.create_parser(main_prompt), called
\* on text: a ParseError of main_prompt.parse_answer becomes ({}, False, str(e))
create_parser(mp, fl, text) ==
    CHOOSE out \in { IF r.raised
                     THEN [value |-> Some(EmptyDict), valid |-> FALSE,
                           retry_message |-> Plain(r.message)]
                     ELSE [value |-> Some(r.dict), valid |-> TRUE,
                           retry_message |-> Plain(<<>>)] :
                         r \in {ParseAnswer(mp, fl, "main", text)} } : TRUE

\* the properties prompt, abstract_ex and concrete_ex of an element
Prompt(mp, fl, name) == Hide(mp.visible[name], fl, OwnPrompt(mp, fl, name))

AbstractEx(mp, fl, name) == Hide(mp.visible[name], fl, OwnAbstractEx(name))

ConcreteEx(mp, fl, name) == Hide(mp.visible[name], fl, OwnConcreteEx(name))

----------------------------------------------------------------------------
(* shrink of the MainPrompt and fit_tokens                                 *)

\* HistoryStep.shrink: the two diffs (Shrinkable.shrink itself does nothing)
HistoryStepShrink(step) ==
    [step EXCEPT !.html_diff = DiffShrink(@), !.ax_tree_diff = DiffShrink(@)]

\* variant: shrink also gives up the examples of the answer
MainPromptShrinkDropsExamples(mp, fl) ==
    [mp EXCEPT !.history_steps = [i \in DOMAIN @ |-> HistoryStepShrink(@[i])],
               !.ax_tree = TrunkaterShrink(@, fl),
               !.html = TrunkaterShrink(@, fl),
               !.visible = [@ EXCEPT !["thought"] = Static(FALSE),
                                     !["memory"] = Static(FALSE)]]

\* variant: shrink is passed on to the elements that are visible only
MainPromptShrinkVisibleOnly(mp, fl) ==
    [mp EXCEPT !.history_steps =
                   [i \in DOMAIN @ |->
                       IF is_visible(mp.visible["history"], fl)
                       THEN HistoryStepShrink(@[i]) ELSE @[i]],
               !.ax_tree = IF is_visible(@.visible, fl)
                           THEN TrunkaterShrink(@, fl) ELSE @,
               !.html = IF is_visible(@.visible, fl)
                        THEN TrunkaterShrink(@, fl) ELSE @]

\* MainPrompt.shrink: History.shrink shrinks every step, then
\* Observation.shrink shrinks the AXTree and the HTML
MainPromptShrink(mp, fl) ==
    [mp EXCEPT !.history_steps = [i \in DOMAIN @ |-> HistoryStepShrink(@[i])],
               !.ax_tree = TrunkaterShrink(@, fl),
               !.html = TrunkaterShrink(@, fl)]

\* variant: reading a rendering shrinks the prompt
RenderShrinks(mp, fl, name) ==
    [prompt |-> Prompt(mp, fl, name),
     abstract_ex |-> AbstractEx(mp, fl, name),
     concrete_ex |-> ConcreteEx(mp, fl, name),
     mp |-> MainPromptShrink(mp, fl)]

\* the properties prompt, abstract_ex and concrete_ex of an element read one
\* after the other: what they return, and the MainPrompt they leave
Render(mp, fl, name) ==
    [prompt |-> Prompt(mp, fl, name),
     abstract_ex |-> AbstractEx(mp, fl, name),
     concrete_ex |-> ConcreteEx(mp, fl, name),
     mp |-> mp]

\* count_tokens of the text parts of a prompt (the image part of a list
\* prompt is left out): the tokenizer is taken to give one token per line,
\* and one for each opening and closing tag
RECURSIVE count_tokens(_)
count_tokens(prompt) ==
    IF prompt = <<>> THEN 0
    ELSE (IF Head(prompt).key = "image_url" THEN 0
          ELSE Len(Head(prompt).lines) + (IF Head(prompt).key = "" THEN 0 ELSE 2))
         + count_tokens(Tail(prompt))

\* the loop of fit_tokens with `remaining` iterations to go; bound says
\* whether prompt and prompt_str were assigned by an earlier iteration
RECURSIVE FitLoop(_, _, _, _, _, _, _)
FitLoop(mp, fl, max_prompt_tokens, remaining, shrinks, bound, last) ==
    IF remaining = 0
    THEN [prompt |-> last, root |-> mp, shrinks |-> shrinks,
          exc |-> IF bound THEN NoException ELSE Exc("UnboundLocalError", 0)]
    ELSE CHOOSE r \in
             { IF count_tokens(prompt) <= max_prompt_tokens
               THEN [prompt |-> prompt, root |-> mp, shrinks |-> shrinks,
                     exc |-> NoException]
               ELSE FitLoop(MainPromptShrink(mp, fl), fl, max_prompt_tokens,
                            remaining - 1, shrinks + 1, TRUE, prompt) :
                   prompt \in {Prompt(mp, fl, "main")} } : TRUE

\* fit_tokens(shrinkable, max_prompt_tokens, max_iterations): what it
\* returns, the root as the shrink calls left it, and how many there were
fit_tokens(mp, fl, max_prompt_tokens, max_iterations) ==
    IF max_prompt_tokens.isNone
    THEN [prompt |-> Prompt(mp, fl, "main"), root |-> mp, shrinks |-> 0,
          exc |-> NoException]
    ELSE FitLoop(mp, fl, max_prompt_tokens.v, max_iterations, 0, FALSE, <<>>)

----------------------------------------------------------------------------
(* retry                                                                   *)

\* The parser of a caller that is not the agent: the reply itself says
\* whether it is acceptable, and carries the value or the retry message.
TableReplies ==
    { Plain(<<"ok", "v1">>), Plain(<<"ok", "v2">>),
      Plain(<<"bad", "m1">>), Plain(<<"bad", "m2">>) }

TableParser(content) ==
    IF content[1].lines[1] = "ok"
    THEN [value |-> Some(content[1].lines[2]), valid |-> TRUE,
          retry_message |-> Plain(<<>>)]
    ELSE [value |-> None, valid |-> FALSE,
          retry_message |-> Plain(<<content[1].lines[2]>>)]

\* the condition of the while loop
LoopCondition(t, delay, n, max_wait) == t < n /\ delay < max_wait

\* the ValueError raised after the loop, and its text
RetryValueError(n) == Exc("ValueError", n)

Str(e) ==
    IF e.exc = "ValueError"
    THEN Plain(<<"Could not parse a valid value after", ToString(e.arg),
                 "retries.">>)
    ELSE Plain(<<e.exc>>)

\* pc after the loop condition is evaluated
AtLoopHead(t, delay, n, max_wait) ==
    IF LoopCondition(t, delay, n, max_wait) THEN "invoke" ELSE "ValueError"

Count(c) == Min(c + 1, MaxCount)

\* the RateLimitError is re-raised once the accumulated wait reaches the ceiling
RateLimitFatal(total_delay, max_wait) == total_delay >= max_wait

\* variant: the correction is appended after a valid reply too
AfterParseAlwaysCorrects(msgs, t, answer, parsed) ==
    [messages |-> Append(Append(msgs, AIMessage(answer)),
                         HumanMessage(parsed.retry_message)),
     tries |-> IF parsed.valid THEN t ELSE t + 1,
     returned |-> parsed.valid,
     value |-> parsed.value]

\* variant: the correction is appended before the reply it corrects
AfterParseCorrectionFirst(msgs, t, answer, parsed) ==
    IF parsed.valid
    THEN [messages |-> Append(msgs, AIMessage(answer)), tries |-> t,
          returned |-> TRUE, value |-> parsed.value]
    ELSE [messages |-> Append(Append(msgs, HumanMessage(parsed.retry_message)),
                              AIMessage(answer)),
          tries |-> t + 1, returned |-> FALSE, value |-> None]

\* One reply of the chat: append it, parse it, and either return the value or
\* count the failure and append the correction.
AfterParse(msgs, t, answer, parsed) ==
    IF parsed.valid
    THEN [messages |-> Append(msgs, AIMessage(answer)), tries |-> t,
          returned |-> TRUE, value |-> parsed.value]
    ELSE [messages |-> Append(Append(msgs, AIMessage(answer)),
                              HumanMessage(parsed.retry_message)),
          tries |-> t + 1, returned |-> FALSE, value |-> None]

ApplyParser(p, content) ==
    IF p = "table" THEN TableParser(content) ELSE AgentParser(flags, content)

Replies(p) == IF p = "table" THEN TableReplies ELSE AgentReplies

\* retry(chat, msgs, n, p, min_retry_wait_time=min_wait,
\*       rate_limit_max_wait_time=max_wait) up to its first chat.invoke
StartRetry(msgs, n, p, min_wait, max_wait) ==
    /\ n_retry' = n
    /\ parser' = p
    /\ min_retry_wait_time' = min_wait
    /\ rate_limit_max_wait_time' = max_wait
    /\ messages' = msgs
    /\ messages0' = msgs
    /\ tries' = 0
    /\ rate_limit_total_delay' = 0
    /\ wait_time' = 0
    /\ value' = None
    /\ chat_calls' = 0
    /\ rate_limit_errors' = 0
    /\ last_hint' = NoHint
    /\ pc' = AtLoopHead(0, 0, n, max_wait)
    /\ exception' = IF pc' = "ValueError" THEN RetryValueError(n) ELSE NoException

\* chat.invoke(messages) returns an answer: lines 95-107, and the loop head
ChatReply(content) ==
    /\ pc = "invoke"
    /\ LET r == AfterParse(messages, tries, content, ApplyParser(parser, content))
       IN  /\ messages' = r.messages
           /\ tries' = r.tries
           /\ value' = r.value
           /\ pc' = IF r.returned THEN "returned"
                    ELSE AtLoopHead(r.tries, rate_limit_total_delay, n_retry,
                                    rate_limit_max_wait_time)
    /\ exception' = IF pc' = "ValueError" THEN RetryValueError(n_retry)
                     ELSE exception
    /\ chat_calls' = Count(chat_calls)
    /\ UNCHANGED <<n_retry, min_retry_wait_time, rate_limit_max_wait_time, parser,
                   rate_limit_total_delay, wait_time, messages0,
                   rate_limit_errors, last_hint>>

\* variant: a RateLimitError consumes a try
ChatRateLimitErrorCountsTry(h) ==
    /\ pc = "invoke"
    /\ pc' = "sleep"
    /\ wait_time' = _extract_wait_time(RateLimitErrorText(h), min_retry_wait_time)
    /\ last_hint' = h
    /\ chat_calls' = Count(chat_calls)
    /\ rate_limit_errors' = Count(rate_limit_errors)
    /\ tries' = tries + 1
    /\ UNCHANGED <<n_retry, min_retry_wait_time, rate_limit_max_wait_time, parser,
                   messages, rate_limit_total_delay, value, exception,
                   messages0>>

\* chat.invoke(messages) raises RateLimitError: lines 79-84, up to the sleep
ChatRateLimitError(h) ==
    /\ pc = "invoke"
    /\ pc' = "sleep"
    /\ wait_time' = _extract_wait_time(RateLimitErrorText(h), min_retry_wait_time)
    /\ last_hint' = h
    /\ chat_calls' = Count(chat_calls)
    /\ rate_limit_errors' = Count(rate_limit_errors)
    /\ UNCHANGED <<n_retry, min_retry_wait_time, rate_limit_max_wait_time, parser,
                   messages, tries, rate_limit_total_delay, value, exception,
                   messages0>>

\* variant: the wait is not added to rate_limit_total_delay
SleepForgetsDelay ==
    /\ pc = "sleep"
    /\ rate_limit_total_delay' = rate_limit_total_delay
    /\ pc' = IF RateLimitFatal(rate_limit_total_delay', rate_limit_max_wait_time)
             THEN "RateLimitError"
             ELSE AtLoopHead(tries, rate_limit_total_delay', n_retry,
                             rate_limit_max_wait_time)
    /\ exception' = IF pc' = "RateLimitError" THEN Exc("RateLimitError", 0)
                     ELSE IF pc' = "ValueError" THEN RetryValueError(n_retry)
                     ELSE exception
    /\ UNCHANGED <<n_retry, min_retry_wait_time, rate_limit_max_wait_time, parser,
                   messages, tries, wait_time, value, messages0, chat_calls,
                   rate_limit_errors, last_hint>>

\* time.sleep(wait_time) returns: lines 85-93, and the loop head
Sleep ==
    /\ pc = "sleep"
    /\ rate_limit_total_delay' = rate_limit_total_delay + wait_time
    /\ pc' = IF RateLimitFatal(rate_limit_total_delay', rate_limit_max_wait_time)
             THEN "RateLimitError"
             ELSE AtLoopHead(tries, rate_limit_total_delay', n_retry,
                             rate_limit_max_wait_time)
    /\ exception' = IF pc' = "RateLimitError" THEN Exc("RateLimitError", 0)
                     ELSE IF pc' = "ValueError" THEN RetryValueError(n_retry)
                     ELSE exception
    /\ UNCHANGED <<n_retry, min_retry_wait_time, rate_limit_max_wait_time, parser,
                   messages, tries, wait_time, value, messages0, chat_calls,
                   rate_limit_errors, last_hint>>

InCall == pc \in {"invoke", "sleep"}

----------------------------------------------------------------------------
(* SpecRetry: one call of retry by a caller with its own parser            *)

MinWaits == {0, 2 * TicksPerSecond}

Ceilings == {0, 3 * TicksPerSecond, 6 * TicksPerSecond}

InitialMessages ==
    { <<>>, <<SystemMessage(Plain(<<"sys">>)), HumanMessage(Plain(<<"prompt">>))>> }

InitAgentVars ==
    /\ flags = DefaultFlags
    /\ obs_history = <<>>
    /\ actions = <<>>
    /\ memories = <<>>
    /\ thoughts = <<>>
    /\ main_prompt = NoMainPrompt
    /\ built_from = <<0, 0, 0>>
    /\ result = [kind |-> "none", action |-> None, think |-> None,
                 chat_messages |-> <<>>, exc |-> NoException]

InitRetry ==
    /\ n_retry \in 0..MaxNRetry
    /\ min_retry_wait_time \in MinWaits
    /\ rate_limit_max_wait_time \in Ceilings
    /\ parser = "table"
    /\ messages \in InitialMessages
    /\ messages0 = messages
    /\ tries = 0
    /\ rate_limit_total_delay = 0
    /\ wait_time = 0
    /\ pc = "idle"
    /\ value = None
    /\ exception = NoException
    /\ chat_calls = 0
    /\ rate_limit_errors = 0
    /\ last_hint = NoHint
    /\ InitElemVars
    /\ InitAgentVars

RetryCall ==
    /\ pc = "idle"
    /\ StartRetry(messages, n_retry, parser, min_retry_wait_time,
                  rate_limit_max_wait_time)
    /\ UNCHANGED <<agent_vars, elem_vars>>

RetryReply ==
    \E content \in Replies(parser) :
        ChatReply(content) /\ UNCHANGED <<agent_vars, elem_vars>>

RetryRateLimitError ==
    \E h \in Hints : ChatRateLimitError(h) /\ UNCHANGED <<agent_vars, elem_vars>>

RetrySleep == Sleep /\ UNCHANGED <<agent_vars, elem_vars>>

NextRetry == RetryCall \/ RetryReply \/ RetryRateLimitError \/ RetrySleep

SpecRetry == InitRetry /\ [][NextRetry]_vars

\* the loop always goes on to its next chat.invoke, and a sleep always ends
SpecRetryFair == SpecRetry /\ WF_vars(NextRetry)

----------------------------------------------------------------------------
(* WebResearchAgent.get_action (SpecAgent)                                 *)

\* retry(self.chat_llm, chat_messages, 4, parser) and the defaults of retry
AgentNRetry == 4

DefaultMinRetryWaitTime == 60 * TicksPerSecond

DefaultRateLimitMaxWaitTime == 60 * 30 * TicksPerSecond

\* SystemPrompt().prompt, and the prompt fit_tokens returns for main_prompt
SystemPromptText == Plain(<<"You are an agent trying to solve a web task">>)

FittedPrompt(mp) == Plain(<<"# Instructions", "# Observation of current step:">>)

\* dict.get(key): None when the key is absent
DictGet(d, key) == IF key \in DOMAIN d THEN d[key] ELSE None

\* the ans_dict of the except branch
FailureDict(e) ==
    [action |-> None, err_msg |-> Some(Str(e)),
     stack_trace |-> Some(<<"Traceback (most recent call last):">>),
     n_retry |-> Some(AgentNRetry)]

Raised(e) ==
    [kind |-> "raise", action |-> None, think |-> None, chat_messages |-> <<>>,
     exc |-> e]

\* variant: AgentInfo is given the two messages the call began with
AppendAndReturnFirstMessages(ans_dict) ==
    /\ actions' = Append(actions, ans_dict["action"])
    /\ memories' = Append(memories, DictGet(ans_dict, "memory"))
    /\ thoughts' = Append(thoughts, DictGet(ans_dict, "think"))
    /\ result' = [kind |-> "return", action |-> ans_dict["action"],
                  think |-> DictGet(ans_dict, "think"),
                  chat_messages |-> messages0', exc |-> NoException]

\* lines 88-92: the three appends and the return
AppendAndReturn(ans_dict) ==
    /\ actions' = Append(actions, ans_dict["action"])
    /\ memories' = Append(memories, DictGet(ans_dict, "memory"))
    /\ thoughts' = Append(thoughts, DictGet(ans_dict, "think"))
    /\ result' = [kind |-> "return", action |-> ans_dict["action"],
                  think |-> DictGet(ans_dict, "think"),
                  chat_messages |-> messages', exc |-> NoException]

\* get_action from the point where retry ends or goes on: lines 79-92
AfterRetry ==
    IF pc' = "returned" THEN AppendAndReturn(value'.v)
    ELSE IF pc' = "ValueError" THEN AppendAndReturn(FailureDict(exception'))
    ELSE IF pc' = "RateLimitError"
         THEN /\ result' = Raised(exception')
              /\ UNCHANGED <<actions, memories, thoughts>>
         ELSE UNCHANGED <<actions, memories, thoughts, result>>

\* get_action(obs) up to the first chat.invoke of retry: lines 59-80
GetAction(obs) ==
    /\ parser = "agent"
    /\ ~InCall
    /\ Len(obs_history) < MaxSteps
    /\ obs_history' = Append(obs_history, obs)
    /\ main_prompt' = MainPromptInit(obs_history', actions, memories, flags)
    /\ built_from' = <<Len(obs_history'), Len(actions), Len(memories)>>
    /\ IF main_prompt'.exc.exc # "none"
       THEN /\ result' = Raised(main_prompt'.exc)
            /\ pc' = "idle"
            /\ UNCHANGED <<n_retry, min_retry_wait_time, rate_limit_max_wait_time,
                           parser, messages, tries, rate_limit_total_delay,
                           wait_time, value, exception, messages0, chat_calls,
                           rate_limit_errors, last_hint>>
            /\ UNCHANGED <<actions, memories, thoughts>>
       ELSE /\ StartRetry(<<SystemMessage(SystemPromptText),
                             HumanMessage(FittedPrompt(main_prompt'))>>,
                           AgentNRetry, "agent", DefaultMinRetryWaitTime,
                           DefaultRateLimitMaxWaitTime)
            /\ AfterRetry
    /\ UNCHANGED flags
    /\ UNCHANGED elem_vars

AgentStep == \E obs \in Observations : GetAction(obs)

AgentReply ==
    /\ parser = "agent"
    /\ \E content \in Replies(parser) : ChatReply(content)
    /\ AfterRetry
    /\ UNCHANGED <<flags, obs_history, main_prompt, built_from>>
    /\ UNCHANGED elem_vars

AgentRateLimitError ==
    /\ parser = "agent"
    /\ \E h \in Hints : ChatRateLimitError(h)
    /\ AfterRetry
    /\ UNCHANGED <<flags, obs_history, main_prompt, built_from>>
    /\ UNCHANGED elem_vars

AgentSleep ==
    /\ parser = "agent"
    /\ Sleep
    /\ AfterRetry
    /\ UNCHANGED <<flags, obs_history, main_prompt, built_from>>
    /\ UNCHANGED elem_vars

\* WebResearchAgent.__init__
InitAgent ==
    /\ flags \in FlagsConfigs
    /\ obs_history = <<>>
    /\ actions = <<>>
    /\ memories = <<>>
    /\ thoughts = <<>>
    /\ main_prompt = NoMainPrompt
    /\ built_from = <<0, 0, 0>>
    /\ result = [kind |-> "none", action |-> None, think |-> None,
                 chat_messages |-> <<>>, exc |-> NoException]
    /\ n_retry = AgentNRetry
    /\ min_retry_wait_time = DefaultMinRetryWaitTime
    /\ rate_limit_max_wait_time = DefaultRateLimitMaxWaitTime
    /\ parser = "agent"
    /\ messages = <<>>
    /\ messages0 = <<>>
    /\ tries = 0
    /\ rate_limit_total_delay = 0
    /\ wait_time = 0
    /\ pc = "idle"
    /\ value = None
    /\ exception = NoException
    /\ chat_calls = 0
    /\ rate_limit_errors = 0
    /\ last_hint = NoHint
    /\ InitElemVars

NextAgent == AgentStep \/ AgentReply \/ AgentRateLimitError \/ AgentSleep

SpecAgent == InitAgent /\ [][NextAgent]_vars

----------------------------------------------------------------------------
(* SpecPrompt: MainPrompt constructed from any histories                   *)

SeqsUpTo(S, n) == UNION {[1..k -> S] : k \in 0..n}

HistoryValues == {None, Some(<<"click('12')">>)}

\* the Flags values MainPrompt is constructed with
PromptFlags ==
    FlagsConfigs
    \cup { [DefaultFlags EXCEPT !.use_history = FALSE, !.use_ax_tree = FALSE,
                                !.use_html = TRUE],
           [DefaultFlags EXCEPT !.use_error_logs = FALSE,
                                !.use_screenshot = FALSE,
                                !.use_thought = FALSE],
           [DefaultFlags EXCEPT !.use_memory = TRUE, !.use_screenshot = FALSE] }

\* the answers handed to parse_answer
Answers ==
    AgentReplies
    \cup { <<Tag("think", <<"t1">>), Tag("memory", <<"m1">>),
             Tag("action", <<"noop()">>)>>,
           <<Tag("think", <<"t3">>), Tag("memory", <<"m2">>)>>,
           <<Tag("think", <<"t1">>), Tag("memory", <<"m1">>),
             Tag("think", <<"t2">>), Tag("memory", <<"m2">>),
             Tag("action", <<"noop()">>)>>,
           <<Tag("think", <<"t1">>), Tag("think", <<"t2">>),
             Tag("action", <<>>)>> }

InitPrompt ==
    /\ flags \in PromptFlags
    /\ obs_history \in SeqsUpTo(Observations, MaxHist)
    /\ actions \in SeqsUpTo(HistoryValues, MaxHist)
    /\ memories \in SeqsUpTo(HistoryValues, MaxHist)
    /\ thoughts = <<>>
    /\ main_prompt = NoMainPrompt
    /\ built_from = <<0, 0, 0>>
    /\ result = [kind |-> "none", action |-> None, think |-> None,
                 chat_messages |-> <<>>, exc |-> NoException]
    /\ n_retry = AgentNRetry
    /\ min_retry_wait_time = DefaultMinRetryWaitTime
    /\ rate_limit_max_wait_time = DefaultRateLimitMaxWaitTime
    /\ parser = "agent"
    /\ messages = <<>>
    /\ messages0 = <<>>
    /\ tries = 0
    /\ rate_limit_total_delay = 0
    /\ wait_time = 0
    /\ pc = "idle"
    /\ value = None
    /\ exception = NoException
    /\ chat_calls = 0
    /\ rate_limit_errors = 0
    /\ last_hint = NoHint
    /\ InitElemVars

\* MainPrompt(obs_history, actions, memories, flags)
ConstructMainPrompt ==
    /\ pc = "idle"
    /\ pc' = "constructed"
    /\ main_prompt' = MainPromptInit(obs_history, actions, memories, flags)
    /\ built_from' = <<Len(obs_history), Len(actions), Len(memories)>>
    /\ UNCHANGED <<n_retry, min_retry_wait_time, rate_limit_max_wait_time, parser,
                   messages, tries, rate_limit_total_delay, wait_time, value,
                   exception, messages0, chat_calls, rate_limit_errors,
                   last_hint>>
    /\ UNCHANGED <<flags, obs_history, actions, memories, thoughts, result>>
    /\ UNCHANGED elem_vars

\* reading prompt, abstract_ex and concrete_ex of one element of the
\* MainPrompt, and calling its parse_answer
AccessElement ==
    /\ pc = "constructed"
    /\ main_prompt.built
    /\ \E name \in ElementNames, answer \in Answers :
           access' = [elem |-> name, answer |-> answer,
                      prompt |-> Prompt(main_prompt, flags, name),
                      abstract_ex |-> AbstractEx(main_prompt, flags, name),
                      concrete_ex |-> ConcreteEx(main_prompt, flags, name),
                      parsed |-> ParseAnswer(main_prompt, flags, name, answer),
                      parser_out |-> NoAccess.parser_out,
                      previous |-> NoAccess.previous]
    /\ UNCHANGED <<retry_vars, agent_vars, trunkater, trunkater0, diff_args,
                   diff_elem, fit_args, fit, parse_call>>

\* parser = self.create_parser(main_prompt), then parser(answer) as retry
\* calls it on a reply
CallParser ==
    /\ pc = "constructed"
    /\ main_prompt.built
    /\ \E answer \in Answers :
           access' = [NoAccess EXCEPT
                          !.elem = "parser", !.answer = answer,
                          !.parser_out = create_parser(main_prompt, flags, answer)]
    /\ UNCHANGED <<retry_vars, agent_vars, trunkater, trunkater0, diff_args,
                   diff_elem, fit_args, fit, parse_call>>

NextPrompt == ConstructMainPrompt \/ AccessElement \/ CallParser

SpecPrompt == InitPrompt /\ [][NextPrompt]_vars

----------------------------------------------------------------------------
(* SpecTrunkater: shrink() called again and again on one Trunkater         *)

\* the text of n lines
Content(n) == NewlineJoin([i \in 1..n |-> "line " \o ToString(i)])

StartIterations == {0, 2, DefaultStartTrunkateIteration}

CoordTypes == {"none", "center", "box"}

\* Trunkater(visible, start_trunkate_iteration=...) with any content, and the
\* HTML and AXTree elements of an observation
Trunkaters ==
    { [Trunkater(Static(v), ShrinkSpeedTenths, st) EXCEPT !._prompt = Content(n)] :
          v \in BOOLEAN, st \in StartIterations, n \in 0..MaxLines }
    \cup { HTML(Content(n), Static(v), "## ") : v \in BOOLEAN, n \in 0..MaxLines }
    \cup { AXTree(Content(n), Static(v), ct, "## ") :
               v \in BOOLEAN, ct \in CoordTypes, n \in 0..MaxLines }

InitRetryVars ==
    /\ n_retry = AgentNRetry
    /\ min_retry_wait_time = DefaultMinRetryWaitTime
    /\ rate_limit_max_wait_time = DefaultRateLimitMaxWaitTime
    /\ parser = "agent"
    /\ messages = <<>>
    /\ messages0 = <<>>
    /\ tries = 0
    /\ rate_limit_total_delay = 0
    /\ wait_time = 0
    /\ pc = "idle"
    /\ value = None
    /\ exception = NoException
    /\ chat_calls = 0
    /\ rate_limit_errors = 0
    /\ last_hint = NoHint

InitTrunkater ==
    /\ trunkater \in Trunkaters
    /\ trunkater0 = trunkater
    /\ InitAccessVars
    /\ fit_args = DefaultFitArgs
    /\ InitAgentVars
    /\ InitDiffVars
    /\ InitRetryVars

\* trunkater.shrink()
ShrinkTrunkater ==
    /\ trunkater.shrink_calls < MaxShrinkCalls
    /\ trunkater' = TrunkaterShrink(trunkater, flags)
    /\ UNCHANGED <<trunkater0, diff_args, diff_elem, access, fit_args, fit,
                   parse_call,
                   retry_vars, agent_vars>>

NextTrunkater == ShrinkTrunkater

SpecTrunkater == InitTrunkater /\ [][NextTrunkater]_vars

\* shrink() goes on being called
SpecTrunkaterFair == SpecTrunkater /\ WF_vars(NextTrunkater)

----------------------------------------------------------------------------
(* SpecDiff: a Diff constructed from two snapshots, then shrunk            *)

\* the snapshots: absent, the empty text, and texts of a few lines
Snapshots ==
    { None, Some(<<>>),
      Some(NewlineJoin(<<"a1", "a2">>)),
      Some(NewlineJoin(<<"a1", "a3">>)),
      Some(NewlineJoin(<<"a1", "+c", "a2", "a4">>)),
      Some(NewlineJoin(<<"+c", "a3", "-d">>)) }

InitDiff ==
    /\ diff_args \in
           { DiffArgs(previous, new, "### HTML diff:", max_line_diff,
                      shrink_speed, Static(visible)) :
                 previous \in Snapshots, new \in Snapshots,
                 max_line_diff \in 1..MaxLineDiff,
                 shrink_speed \in 1..MaxShrinkSpeed, visible \in BOOLEAN }
    /\ diff_elem = NoDiff
    /\ InitTrunkaterVars
    /\ InitAccessVars
    /\ fit_args = DefaultFitArgs
    /\ InitAgentVars
    /\ InitRetryVars

\* Diff(previous, new, prefix, max_line_diff, shrink_speed, visible)
ConstructDiff ==
    /\ ~diff_elem.built
    /\ diff_elem.exc.exc = "none"
    /\ diff_elem' = DiffInit(diff_args.previous, diff_args.new, diff_args.prefix,
                             diff_args.max_line_diff, diff_args.shrink_speed,
                             diff_args.visible)
    /\ UNCHANGED <<diff_args, trunkater, trunkater0, access, fit_args, fit,
                   parse_call,
                   retry_vars, agent_vars>>

\* diff_elem.shrink()
ShrinkDiff ==
    /\ diff_elem.built
    /\ diff_elem' = DiffShrink(diff_elem)
    /\ UNCHANGED <<diff_args, trunkater, trunkater0, access, fit_args, fit,
                   parse_call,
                   retry_vars, agent_vars>>

NextDiff == ConstructDiff \/ ShrinkDiff

SpecDiff == InitDiff /\ [][NextDiff]_vars

\* shrink() goes on being called on a constructed element
SpecDiffFair == SpecDiff /\ WF_vars(ShrinkDiff)

----------------------------------------------------------------------------
(* SpecFit: fit_tokens called on a MainPrompt with any budget              *)

\* observations whose trees are long enough for truncation to shorten them
FitObservations ==
    Observations
    \cup { Obs("g", [i \in 1..7 |-> "a" \o ToString(i)],
               [i \in 1..5 |-> "h" \o ToString(i)], <<>>) }

\* the budgets: unset, and token counts from far too small to ample
Budgets == {None} \cup {Some(n) : n \in {0, 20, 24, 26, 28, 30, 34, 128000}}

InitFit ==
    /\ flags \in PromptFlags
    /\ obs_history \in {<<o>> : o \in FitObservations}
    /\ actions = <<>>
    /\ memories = <<>>
    /\ thoughts = <<>>
    /\ main_prompt = NoMainPrompt
    /\ built_from = <<0, 0, 0>>
    /\ result = [kind |-> "none", action |-> None, think |-> None,
                 chat_messages |-> <<>>, exc |-> NoException]
    /\ InitRetryVars
    /\ InitTrunkaterVars
    /\ InitDiffVars
    /\ InitAccessVars
    /\ fit_args \in [max_prompt_tokens : Budgets,
                     max_iterations : 0..MaxIterations]

\* fit_tokens(main_prompt, max_prompt_tokens, max_iterations): the shrink
\* calls change the MainPrompt itself
FitTokens ==
    /\ pc = "constructed"
    /\ main_prompt.built
    /\ ~fit.done
    /\ \E r \in {fit_tokens(main_prompt, flags, fit_args.max_prompt_tokens,
                            fit_args.max_iterations)} :
           /\ fit' = [done |-> TRUE, prompt |-> r.prompt, shrinks |-> r.shrinks,
                      exc |-> r.exc, root0 |-> <<main_prompt>>]
           /\ main_prompt' = r.root
    /\ UNCHANGED <<retry_vars, flags, obs_history, actions, memories, thoughts,
                   built_from, result, trunkater, trunkater0, diff_args,
                   diff_elem, access, fit_args, parse_call>>

NextFit == ConstructMainPrompt \/ FitTokens

SpecFit == InitFit /\ [][NextFit]_vars

----------------------------------------------------------------------------
(* SpecShrink: shrink() called again and again on a MainPrompt             *)

\* flags objects that carry the attribute html_type HistoryStep reads (the
\* dataclass takes it by assignment), so that history steps can be built
ShrinkFlags ==
    { [name \in DOMAIN fl \cup {"html_type"} |->
          IF name = "html_type" THEN "pruned_html" ELSE fl[name]] :
              fl \in PromptFlags }

\* observations of pages that differ in many lines
ShrinkObservations ==
    FitObservations
    \cup { Obs("g", [i \in 1..7 |-> "b" \o ToString(i)],
               [i \in 1..6 |-> "k" \o ToString(i)], <<"TimeoutError">>) }

\* histories that pass the assertions of History.__init__
InitShrink ==
    /\ flags \in ShrinkFlags
    /\ obs_history \in UNION {[1..k -> ShrinkObservations] : k \in 1..MaxHist}
    /\ actions \in [1..(Len(obs_history) - 1) -> HistoryValues]
    /\ memories \in [1..(Len(obs_history) - 1) -> HistoryValues]
    /\ thoughts = <<>>
    /\ main_prompt = NoMainPrompt
    /\ built_from = <<0, 0, 0>>
    /\ result = [kind |-> "none", action |-> None, think |-> None,
                 chat_messages |-> <<>>, exc |-> NoException]
    /\ InitRetryVars
    /\ InitElemVars

\* main_prompt.shrink()
ShrinkMainPrompt ==
    /\ pc = "constructed"
    /\ main_prompt.built
    /\ main_prompt.ax_tree.shrink_calls < MaxShrinkCalls
    /\ main_prompt' = MainPromptShrink(main_prompt, flags)
    /\ access' = NoAccess
    /\ UNCHANGED <<retry_vars, flags, obs_history, actions, memories, thoughts,
                   built_from, result>>
    /\ UNCHANGED <<trunkater, trunkater0, diff_args, diff_elem, fit_args, fit,
                   parse_call>>

\* the renderings of one element of the MainPrompt are read; access holds
\* the last reading since the last shrink
RenderElement ==
    /\ pc = "constructed"
    /\ main_prompt.built
    /\ \E name \in ElementNames :
           \E r \in {Render(main_prompt, flags, name)} :
               /\ access' = [NoAccess EXCEPT !.elem = name,
                                             !.prompt = r.prompt,
                                             !.abstract_ex = r.abstract_ex,
                                             !.concrete_ex = r.concrete_ex]
               /\ main_prompt' = r.mp
    /\ UNCHANGED <<retry_vars, flags, obs_history, actions, memories, thoughts,
                   built_from, result>>
    /\ UNCHANGED <<trunkater, trunkater0, diff_args, diff_elem, fit_args, fit,
                   parse_call>>

NextShrink == ConstructMainPrompt \/ ShrinkMainPrompt \/ RenderElement

SpecShrink == InitShrink /\ [][NextShrink]_vars

----------------------------------------------------------------------------
(* SpecVisibility: flags changed between two readings of an element        *)

\* the flags the callable visibilities read
FlagsRead == {"use_history", "use_error_logs", "use_past_error_logs"}

\* the elements whose rendering holds an element with a callable visibility,
\* and the Observation, which holds none
VisibilityElements == {"history", "main", "obs"}

\* the caller assigns to an attribute of the flags object the MainPrompt and
\* its elements hold
SetFlag ==
    /\ pc = "constructed"
    /\ main_prompt.built
    /\ \E name \in FlagsRead : flags' = [flags EXCEPT ![name] = ~@]
    /\ UNCHANGED <<retry_vars, obs_history, actions, memories, thoughts,
                   main_prompt, built_from, result, elem_vars>>

\* the renderings of an element are read; access keeps the rendering read
\* before this one
ReadElement ==
    /\ pc = "constructed"
    /\ main_prompt.built
    /\ \E name \in VisibilityElements :
           \E r \in {Render(main_prompt, flags, name)} :
               /\ access' = [NoAccess EXCEPT
                                 !.elem = name,
                                 !.prompt = r.prompt,
                                 !.abstract_ex = r.abstract_ex,
                                 !.concrete_ex = r.concrete_ex,
                                 !.parsed = ParseAnswer(main_prompt, flags, name,
                                                        <<>>),
                                 !.previous = [elem |-> access.elem,
                                               prompt |-> access.prompt]]
               /\ main_prompt' = r.mp
    /\ UNCHANGED <<retry_vars, flags, obs_history, actions, memories, thoughts,
                   built_from, result>>
    /\ UNCHANGED <<trunkater, trunkater0, diff_args, diff_elem, fit_args, fit,
                   parse_call>>

NextVisibility == ConstructMainPrompt \/ SetFlag \/ ReadElement

SpecVisibility == InitShrink /\ [][NextVisibility]_vars

----------------------------------------------------------------------------
(* SpecSteps: get_action called step after step, the prompt shrunk in each *)

\* two flags objects (with html_type) under which every step builds
StepFlags ==
    { fl \in ShrinkFlags : fl.use_history /\ fl.use_thought /\ fl.use_error_logs
                           /\ fl.use_screenshot }

\* two pages that differ in every line
StepObservations ==
    { Obs("g", [i \in 1..7 |-> "a" \o ToString(i)],
          [i \in 1..5 |-> "h" \o ToString(i)], <<>>),
      Obs("g", [i \in 1..7 |-> "b" \o ToString(i)],
          [i \in 1..6 |-> "k" \o ToString(i)], <<"TimeoutError">>) }

\* max_prompt_tokens of the model: one no prompt fits, one every prompt fits
StepBudgets == {Some(0), Some(128000)}

\* what get_action appends for the answer of a step: the null action of
\* exhausted retries, or an action with its memory
StepAnswers ==
    { [action |-> None, memory |-> None, think |-> None],
      [action |-> Some(<<"click('12')">>), memory |-> Some(<<"m1">>),
       think |-> Some(<<"t1">>)] }

\* variant: the HTML and AXTree elements of the previous step's prompt are
\* used again
StepMainPromptReused(previous, history_obs, acts, mems, fl) ==
    CHOOSE r \in { IF previous.built /\ mp.built
                   THEN [mp EXCEPT !.html = previous.html,
                                   !.ax_tree = previous.ax_tree]
                   ELSE mp :
                       mp \in {MainPromptInit(history_obs, acts, mems, fl)} } : TRUE

\* lines 60-65 of get_action: main_prompt is a new MainPrompt in every call,
\* whatever the one of the previous call (previous) has become
StepMainPrompt(previous, history_obs, acts, mems, fl) ==
    MainPromptInit(history_obs, acts, mems, fl)

InitSteps ==
    /\ flags \in StepFlags
    /\ obs_history = <<>>
    /\ actions = <<>>
    /\ memories = <<>>
    /\ thoughts = <<>>
    /\ main_prompt = NoMainPrompt
    /\ built_from = <<0, 0, 0>>
    /\ result = [kind |-> "none", action |-> None, think |-> None,
                 chat_messages |-> <<>>, exc |-> NoException]
    /\ InitRetryVars
    /\ InitElemVars

\* get_action(obs), lines 59-65: the observation is appended and the
\* MainPrompt of the step is constructed
StepConstruct ==
    /\ pc = "idle"
    /\ Len(obs_history) < MaxSteps
    /\ \E obs \in StepObservations :
           obs_history' = Append(obs_history, obs)
    /\ main_prompt' = StepMainPrompt(main_prompt, obs_history', actions,
                                     memories, flags)
    /\ built_from' = <<Len(obs_history'), Len(actions), Len(memories)>>
    /\ IF main_prompt'.built
       THEN pc' = "constructed" /\ UNCHANGED result
       ELSE pc' = "idle" /\ result' = Raised(main_prompt'.exc)
    /\ UNCHANGED <<n_retry, min_retry_wait_time, rate_limit_max_wait_time,
                   parser, messages, tries, rate_limit_total_delay, wait_time,
                   value, exception, messages0, chat_calls, rate_limit_errors,
                   last_hint>>
    /\ UNCHANGED <<flags, actions, memories, thoughts>>
    /\ UNCHANGED elem_vars

\* lines 67-71: fit_tokens(main_prompt, max_prompt_tokens=...); fit keeps
\* what this call of fit_tokens did until the next one
StepFit ==
    /\ pc = "constructed"
    /\ main_prompt.built
    /\ \E budget \in StepBudgets :
           \E r \in {fit_tokens(main_prompt, flags, budget,
                                DefaultMaxIterations)} :
               /\ fit' = [done |-> TRUE, prompt |-> r.prompt,
                          shrinks |-> r.shrinks, exc |-> r.exc,
                          root0 |-> <<main_prompt>>]
               /\ main_prompt' = r.root
    /\ pc' = "fitted"
    /\ UNCHANGED <<n_retry, min_retry_wait_time, rate_limit_max_wait_time,
                   parser, messages, tries, rate_limit_total_delay, wait_time,
                   value, exception, messages0, chat_calls, rate_limit_errors,
                   last_hint>>
    /\ UNCHANGED <<flags, obs_history, actions, memories, thoughts, built_from,
                   result>>
    /\ UNCHANGED <<trunkater, trunkater0, diff_args, diff_elem, access,
                   fit_args, parse_call>>

\* lines 78-92: retry has returned an answer or given up; the three appends
StepReturn ==
    /\ pc = "fitted"
    /\ \E ans_dict \in StepAnswers :
           /\ actions' = Append(actions, ans_dict.action)
           /\ memories' = Append(memories, ans_dict.memory)
           /\ thoughts' = Append(thoughts, ans_dict.think)
    /\ pc' = "idle"
    /\ UNCHANGED <<n_retry, min_retry_wait_time, rate_limit_max_wait_time,
                   parser, messages, tries, rate_limit_total_delay, wait_time,
                   value, exception, messages0, chat_calls, rate_limit_errors,
                   last_hint>>
    /\ UNCHANGED <<flags, obs_history, main_prompt, built_from, result>>
    /\ UNCHANGED elem_vars

NextSteps == StepConstruct \/ StepFit \/ StepReturn

SpecSteps == InitSteps /\ [][NextSteps]_vars

----------------------------------------------------------------------------
(* SpecParse: parse_html_tags and parse_html_tags_raise on any text        *)

\* the pieces a text is made of: tagged contents and plain text
ParseSegments ==
    { Tag("action", <<"x">>), Tag("action", <<"y">>), Tag("memory", <<"x">>),
      Tag("think", <<"x">>) }
    \cup { Plain(<<"p">>)[1] }

ParseTexts == UNION {[1..k -> ParseSegments] : k \in 0..MaxTextLen}

KeyNames == {"action", "memory", "think"}

\* lists of distinct keys
KeyLists ==
    {ks \in UNION {[1..k -> KeyNames] : k \in 0..Cardinality(KeyNames)} :
        \A i, j \in 1..Len(ks) : ks[i] = ks[j] => i = j}

\* keys and optional_keys as the callers pass them: no key in common
KeyArguments ==
    {ka \in KeyLists \X KeyLists : Range(ka[1]) \cap Range(ka[2]) = {}}

InitParse ==
    /\ parse_call \in
           { [NoParseCall EXCEPT !.text = text, !.keys = ka[1],
                                 !.optional_keys = ka[2],
                                 !.merge_multiple = merge_multiple] :
                 text \in ParseTexts, ka \in KeyArguments,
                 merge_multiple \in BOOLEAN }
    /\ access = NoAccess
    /\ fit = NoFit
    /\ fit_args = DefaultFitArgs
    /\ InitTrunkaterVars
    /\ InitDiffVars
    /\ InitAgentVars
    /\ InitRetryVars

\* parse_html_tags(text, keys, optional_keys, merge_multiple)
ParseHtmlTags ==
    /\ ~parse_call.returned
    /\ parse_call' =
           [parse_call EXCEPT
               !.returned = TRUE,
               !.out = parse_html_tags(parse_call.text, parse_call.keys,
                                       parse_call.optional_keys,
                                       parse_call.merge_multiple)]
    /\ UNCHANGED <<retry_vars, agent_vars, trunkater, trunkater0, diff_args,
                   diff_elem, access, fit_args, fit>>

\* parse_html_tags_raise(text, keys, optional_keys, merge_multiple)
ParseHtmlTagsRaise ==
    /\ ~parse_call.raise_returned
    /\ parse_call' =
           [parse_call EXCEPT
               !.raise_returned = TRUE,
               !.raise_out =
                   parse_html_tags_raise(parse_call.text, parse_call.keys,
                                         parse_call.optional_keys,
                                         parse_call.merge_multiple)]
    /\ UNCHANGED <<retry_vars, agent_vars, trunkater, trunkater0, diff_args,
                   diff_elem, access, fit_args, fit>>

NextParse == ParseHtmlTags \/ ParseHtmlTagsRaise

SpecParse == InitParse /\ [][NextParse]_vars

----------------------------------------------------------------------------
(* SpecConstruct: WebResearchAgent constructed with any flags, then used   *)

\* an action_space outside the six cases of get_action_space
UnknownActionSpace == "bid+chat"

\* the flags the agent is constructed with
AgentFlags ==
    {DefaultFlags, [DefaultFlags EXCEPT !.action_space = "coord+nav"],
     [DefaultFlags EXCEPT !.action_space = UnknownActionSpace]}

\* get_action_space(flags): the action set, or NotImplementedError
get_action_space(fl) ==
    IF fl.action_space \in KnownActionSpaces
    THEN NoException
    ELSE Exc("NotImplementedError", 0)

\* before WebResearchAgent(goal, flags) is called
InitConstruct ==
    /\ flags \in AgentFlags
    /\ obs_history = <<>>
    /\ actions = <<>>
    /\ memories = <<>>
    /\ thoughts = <<>>
    /\ main_prompt = NoMainPrompt
    /\ built_from = <<0, 0, 0>>
    /\ result = [kind |-> "none", action |-> None, think |-> None,
                 chat_messages |-> <<>>, exc |-> NoException]
    /\ n_retry = AgentNRetry
    /\ min_retry_wait_time = DefaultMinRetryWaitTime
    /\ rate_limit_max_wait_time = DefaultRateLimitMaxWaitTime
    /\ parser = "agent"
    /\ messages = <<>>
    /\ messages0 = <<>>
    /\ tries = 0
    /\ rate_limit_total_delay = 0
    /\ wait_time = 0
    /\ pc = "new"
    /\ value = None
    /\ exception = NoException
    /\ chat_calls = 0
    /\ rate_limit_errors = 0
    /\ last_hint = NoHint
    /\ InitElemVars

\* variant: __init__ that does not build the action set
WebResearchAgentInitNoActionSet(fl) == NoException

\* WebResearchAgent.__init__: what it raises
WebResearchAgentInit(fl) == get_action_space(fl)

\* WebResearchAgent(goal, flags): there is an agent only if nothing is raised
ConstructAgent ==
    /\ pc = "new"
    /\ \E e \in {WebResearchAgentInit(flags)} :
           IF e.exc = "none"
           THEN pc' = "idle" /\ UNCHANGED result
           ELSE pc' = "no agent" /\ result' = Raised(e)
    /\ UNCHANGED <<n_retry, min_retry_wait_time, rate_limit_max_wait_time,
                   parser, messages, tries, rate_limit_total_delay, wait_time,
                   value, exception, messages0, chat_calls, rate_limit_errors,
                   last_hint>>
    /\ UNCHANGED <<flags, obs_history, actions, memories, thoughts, main_prompt,
                   built_from>>
    /\ UNCHANGED elem_vars

\* the caller assigns another action_space to the flags object it shares
\* with the agent, between two steps
SetActionSpace ==
    /\ pc \notin {"new", "no agent"}
    /\ ~InCall
    /\ flags.action_space \in KnownActionSpaces
    /\ flags' = [flags EXCEPT !.action_space = UnknownActionSpace]
    /\ UNCHANGED <<retry_vars, obs_history, actions, memories, thoughts,
                   main_prompt, built_from, result>>
    /\ UNCHANGED elem_vars

AgentExists == pc \notin {"new", "no agent"}

NextConstruct ==
    \/ ConstructAgent
    \/ SetActionSpace
    \/ (AgentExists /\ AgentStep)
    \/ (AgentExists /\ AgentReply)
    \/ (AgentExists /\ AgentRateLimitError)
    \/ (AgentExists /\ AgentSleep)

SpecConstruct == InitConstruct /\ [][NextConstruct]_vars

----------------------------------------------------------------------------
(* Properties of retry (SpecRetry, SpecRetryFair)                          *)

\* what this call has appended to the message list
NewMessages == SubSeq(messages, Len(messages0) + 1, Len(messages))

\* the replies of this call the parser rejected
Rejected ==
    Cardinality({i \in 1..Len(NewMessages) :
                    /\ NewMessages[i].role = "ai"
                    /\ ~ApplyParser(parser, NewMessages[i].content).valid})

\* the correction messages of this call
Corrections ==
    Cardinality({i \in 1..Len(NewMessages) : NewMessages[i].role = "human"})

\* the parser invocations of this call
ParserCalls ==
    Cardinality({i \in 1..Len(NewMessages) : NewMessages[i].role = "ai"})

Terminated == pc \in {"returned", "ValueError", "RateLimitError"}

\* C1: when retry returns and no RateLimitError occurred, the k replies before
\* the accepted one were rejected with k < n_retry, the chat was invoked
\* exactly k + 1 times, exactly k correction messages were appended, and the
\* value returned is the parser's value for the (k+1)-th reply.
C1_ReturnsFirstAccepted ==
    (pc = "returned" /\ rate_limit_errors = 0) =>
        /\ Rejected < n_retry
        /\ tries = Rejected
        /\ chat_calls = Rejected + 1
        /\ Corrections = Rejected
        /\ Len(messages) = Len(messages0) + 2 * Rejected + 1
        /\ messages[Len(messages)].role = "ai"
        /\ ApplyParser(parser, messages[Len(messages)].content).valid
        /\ value = ApplyParser(parser, messages[Len(messages)].content).value

\* C1 witness: the parser failed exactly twice, then accepted the third reply
C1_Witness ==
    /\ pc = "returned"
    /\ rate_limit_errors = 0
    /\ Rejected = 2
    /\ chat_calls = 3
    /\ Corrections = 2

\* C2: the terminal ValueError is raised if and only if exactly n_retry
\* replies have been rejected by the parser in this call (for every
\* n_retry >= 0 and every ceiling); never with fewer failed validations.
C2_ValueErrorIffExhausted ==
    (pc # "idle") => ((pc = "ValueError") <=> (Rejected = n_retry))

\* C2, for the ceilings above zero only
C2_ValueErrorIffExhaustedPositiveCeiling ==
    (pc # "idle" /\ rate_limit_max_wait_time > 0) =>
        ((pc = "ValueError") <=> (Rejected = n_retry))

\* the shape of the message list: the initial messages, then (assistant
\* reply, user correction of that reply) pairs, then at most one last reply
MessagesShape ==
    /\ IsPrefix(messages0, messages)
    /\ \A i \in 1..Len(NewMessages) :
          IF i % 2 = 1
          THEN NewMessages[i].role = "ai"
          ELSE /\ NewMessages[i].role = "human"
               /\ NewMessages[i].content =
                      ApplyParser(parser, NewMessages[i - 1].content).retry_message
    /\ (Len(NewMessages) % 2 = 1) => (pc = "returned")

\* what one step of a call may do to the message list
MessagesStep ==
    /\ IsPrefix(messages, messages')
    /\ (tries' = tries + 1) => (Len(messages') = Len(messages) + 2)
    /\ (pc' = "returned") => (Len(messages') = Len(messages) + 1)
    /\ (tries' = tries /\ pc' # "returned") => (messages' = messages)

\* C3: the message list is only ever appended to, always has the shape above,
\* a failed validation appends exactly two entries (reply, then correction)
\* and a successful one exactly one.
C3_AppendOnlyShape == []MessagesShape /\ [][MessagesStep]_vars

\* C3 witness: two pairs and a last accepted reply after the initial messages
C3_Witness ==
    /\ pc = "returned"
    /\ messages0 # <<>>
    /\ Len(NewMessages) = 5

\* a step that handles a RateLimitError: the raise, or the sleep after it
RateLimitStep == (pc = "invoke" /\ pc' = "sleep") \/ pc = "sleep"

\* C4: handling a RateLimitError leaves tries and the message list unchanged,
\* and rate-limit errors do not cost parse attempts: while the call goes on
\* an attempt is left, and a call that saw rate-limit errors and ends in the
\* ValueError has had all n_retry replies parsed.
C4_RateLimitKeepsTries ==
    /\ [][RateLimitStep => (tries' = tries /\ messages' = messages)]_vars
    /\ []((InCall /\ rate_limit_errors > 0) =>
              (tries = Rejected /\ n_retry - tries > 0))
    /\ []((pc = "ValueError" /\ rate_limit_errors > 0) =>
              (Rejected = n_retry /\ ParserCalls = n_retry))

\* C4 witness: all n_retry attempts were used although two rate-limit errors
\* came in between
C4_Witness ==
    /\ pc = "ValueError"
    /\ rate_limit_errors >= 2
    /\ n_retry >= 2
    /\ Rejected = n_retry

\* C5: the RateLimitError is propagated exactly when the accumulated wait
\* exceeds the ceiling; while it does not exceed it, the loop goes on.
C5_FatalIffExceeds ==
    (rate_limit_errors > 0 /\ pc # "sleep") =>
        ((pc = "RateLimitError")
            <=> (rate_limit_total_delay > rate_limit_max_wait_time))

\* C5 as the code has it: propagated when the ceiling is reached or exceeded
C5_FatalIffReaches ==
    (pc = "RateLimitError")
        <=> (rate_limit_errors > 0 /\ pc # "sleep"
             /\ rate_limit_total_delay >= rate_limit_max_wait_time)

\* C6: the wait after a RateLimitError is max(min_retry_wait_time, hint) when
\* the text has a "try again in Ns" hint, min_retry_wait_time when it has
\* none, and never below min_retry_wait_time.
C6_WaitTime ==
    (pc = "sleep") =>
        /\ wait_time >= min_retry_wait_time
        /\ wait_time = IF last_hint.kind = "s"
                       THEN Max(min_retry_wait_time, last_hint.ticks)
                       ELSE min_retry_wait_time

\* C6 witness: a hint of 1.5 s under a minimum of 2 s
C6_Witness ==
    /\ pc = "sleep"
    /\ last_hint.kind = "s"
    /\ 0 < last_hint.ticks
    /\ last_hint.ticks < min_retry_wait_time
    /\ wait_time = min_retry_wait_time

\* the sleeps of this call that have ended
SleepsDone == IF pc = "sleep" THEN rate_limit_errors - 1 ELSE rate_limit_errors

\* C7: every retry call terminates, whatever the chat service does and for
\* any min_retry_wait_time >= 0.
C7_Terminates == <>Terminated

\* C7 amended: with min_retry_wait_time > 0 every call terminates; the parser
\* is invoked at most n_retry times, and every sleep but the last starts
\* below the ceiling, which bounds their number by the ceiling over the
\* minimum wait (plus one).
C7_TerminatesPositiveMinWait ==
    /\ (min_retry_wait_time > 0) => <>Terminated
    /\ [](ParserCalls <= Max(n_retry, 0))
    /\ []((min_retry_wait_time > 0 /\ SleepsDone >= 1) =>
              (SleepsDone - 1) * min_retry_wait_time < rate_limit_max_wait_time)

\* C7 witness: a call with a positive minimum wait that ended after two sleeps
C7_Witness ==
    /\ min_retry_wait_time > 0
    /\ pc = "RateLimitError"
    /\ rate_limit_errors = 2
    /\ ParserCalls >= 1

----------------------------------------------------------------------------
(* Properties of the Trunkater (SpecTrunkater, SpecTrunkaterFair)          *)

\* the prompt property of a Trunkater, and the number of its lines
Rendered(t) == Hide(t.visible, flags, t._prompt)

LineCount(t) == Len(splitlines(Rendered(t)))

LastLine(s) == splitlines(s)[Len(splitlines(s))]

\* the element was built as HTML(...) / as AXTree(...)
IsHTML(t) == Len(splitlines(t._prompt)) >= 2 /\ splitlines(t._prompt)[2] = "## HTML:"

IsAXTree(t) ==
    Len(splitlines(t._prompt)) >= 2 /\ splitlines(t._prompt)[2] = "## AXTree:"

\* the call about to be made truncates; a truncating call has been made
Truncates(t) ==
    is_visible(t.visible, flags) /\ t.shrink_calls >= t.start_trunkate_iteration

TruncationBegun(t) ==
    is_visible(t.visible, flags) /\ t.shrink_calls > t.start_trunkate_iteration

\* one no-op call: only the call counter moves
NoOpCall == trunkater' = [trunkater EXCEPT !.shrink_calls = @ + 1]

\* C14: the first start_trunkate_iteration calls to shrink() leave the content
\* and the deleted-line counter unchanged and only increment the call counter;
\* truncation begins with call number start_trunkate_iteration + 1, that is
\* after 5 no-op calls for HTML and 10 for the accessibility tree.
C14_NoOpCalls ==
    /\ []((trunkater.shrink_calls <= trunkater.start_trunkate_iteration) =>
             /\ trunkater._prompt = trunkater0._prompt
             /\ trunkater.deleted_lines = 0)
    /\ [][(trunkater.shrink_calls < trunkater.start_trunkate_iteration)
              => NoOpCall]_vars
    /\ [][(is_visible(trunkater.visible, flags)
           /\ trunkater.shrink_calls = trunkater.start_trunkate_iteration) =>
              /\ trunkater'.shrink_calls = trunkater.shrink_calls + 1
              /\ trunkater'._prompt # trunkater._prompt
              /\ LastLine(trunkater'._prompt) = Footer(trunkater'.deleted_lines)]_vars
    /\ [](IsHTML(trunkater0) =>
             trunkater.start_trunkate_iteration = HTMLStartTrunkateIteration)
    /\ [](IsAXTree(trunkater0) =>
             trunkater.start_trunkate_iteration = AXTreeStartTrunkateIteration)

\* C14 witness: a visible HTML element after its five no-op calls
C14_Witness ==
    /\ IsHTML(trunkater0)
    /\ is_visible(trunkater.visible, flags)
    /\ trunkater.shrink_calls = 5
    /\ trunkater._prompt = trunkater0._prompt
    /\ LineCount(trunkater) >= 4

\* C15: once truncation has begun, every further shrink() call on a visible
\* element with non-empty content strictly decreases the line count of its
\* rendered content, and after finitely many calls the content is empty.
C15_StrictDecreaseToEmpty ==
    /\ [][(TruncationBegun(trunkater) /\ trunkater' # trunkater
           /\ LineCount(trunkater) > 0) =>
              LineCount(trunkater') < LineCount(trunkater)]_vars
    /\ (is_visible(trunkater.visible, flags) => <>(Rendered(trunkater) = <<>>))

\* C15 as the code has it: a truncating call keeps int(0.7 n) of the n lines
\* and adds the footer, so the content settles at two or three lines
C15_SettlesAtFooter ==
    /\ [][Truncates(trunkater) =>
              LineCount(trunkater')
                  = Max(NewLineCount(LineCount(trunkater), ShrinkSpeedTenths), 1)
                        + 1]_vars
    /\ [](TruncationBegun(trunkater) => LineCount(trunkater) >= 2)

\* C16: for every initial content (empty and one-line content included) and
\* every number of shrink() calls, no shrink() call increases the line count
\* of the rendered content.
C16_NeverGrows == [][LineCount(trunkater') <= LineCount(trunkater)]_vars

\* C16 as the code has it: only contents of fewer than two lines grow
C16_GrowsOnlyBelowTwoLines ==
    [][(LineCount(trunkater) >= 2) =>
           LineCount(trunkater') <= LineCount(trunkater)]_vars

\* C17: the cumulative deleted-line counter never decreases across shrink()
\* calls, and after every truncating call the last line of the content is the
\* footer reporting exactly the current value of that counter.
C17_FooterReportsCounter ==
    /\ [][trunkater'.deleted_lines >= trunkater.deleted_lines]_vars
    /\ [](TruncationBegun(trunkater) =>
             LastLine(trunkater._prompt) = Footer(trunkater.deleted_lines))
    /\ [][Truncates(trunkater) =>
              trunkater'.deleted_lines - trunkater.deleted_lines
                  = Len(splitlines(trunkater._prompt))
                        - NewLineCount(Len(splitlines(trunkater._prompt)),
                                       trunkater.shrink_speed)]_vars

\* C17 witness: four truncating calls on an accessibility tree, 9 lines deleted
C17_Witness ==
    /\ IsAXTree(trunkater0)
    /\ TruncationBegun(trunkater)
    /\ trunkater.shrink_calls = trunkater.start_trunkate_iteration + 4
    /\ trunkater.deleted_lines >= 9
    /\ LastLine(trunkater._prompt) = Footer(trunkater.deleted_lines)

\* the lines of the content now and of the content shrink() was first
\* called on
ContentLines == splitlines(trunkater._prompt)

OriginalLines == splitlines(trunkater0._prompt)

\* a line is a footer a shrink() call has written
IsFooter(line) == \E n \in 0..trunkater.deleted_lines : line = Footer(n)

\* the lines of the content that are no footer
RetainedLines == SelectSeq(ContentLines, LAMBDA line : ~IsFooter(line))

\* at most one footer, as the last line, after a prefix of the original lines
OneFooterAfterPrefix ==
    /\ Len(ContentLines) - Len(RetainedLines) <= 1
    /\ \A i \in 1..(Len(ContentLines) - 1) : ~IsFooter(ContentLines[i])
    /\ IsPrefix(RetainedLines, OriginalLines)

\* C36: after any number of shrink() calls the content has at most one
\* '... Deleted N lines' footer, as its last line, and the lines before it
\* are a prefix of the lines of the original content.
C36_OneFooterAfterPrefix == OneFooterAfterPrefix

\* C36 as the code has it: it holds for an original content of two lines or
\* more; below that the kept lines are none and the join leaves an empty
\* line before the footer
C36_FromTwoLines == (Len(OriginalLines) >= 2) => OneFooterAfterPrefix

\* an empty line that the original content does not begin with precedes the
\* footer
C36_EmptyLineKept ==
    /\ TruncationBegun(trunkater)
    /\ Len(OriginalLines) <= 1
    /\ ContentLines = <<"", Footer(trunkater.deleted_lines)>>
    /\ ~IsPrefix(<<"">>, OriginalLines)

\* the footer reports the original lines that are gone, which are no more
\* than the original content had
DeletedAreOriginalLines ==
    /\ TruncationBegun(trunkater) =>
           trunkater.deleted_lines = Len(OriginalLines) - Len(RetainedLines)
    /\ trunkater.deleted_lines <= Len(OriginalLines)

\* C37: the total the footer reports is the number of lines of the original
\* content that are no longer present, so that after any number of shrink()
\* calls deleted_lines is at most the original content's line count.
C37_DeletedAtMostOriginal == DeletedAreOriginalLines

\* C37 as the code has it: every truncating call but the first also counts
\* the footer of the call before, which is among the lines it deletes
C37_FootersCounted ==
    /\ TruncationBegun(trunkater) =>
           trunkater.deleted_lines
               = Len(OriginalLines) - Len(RetainedLines)
                     + (trunkater.shrink_calls
                            - trunkater.start_trunkate_iteration - 1)
                     + (IF Len(OriginalLines) <= 1 THEN 1 ELSE 0)
    /\ ~TruncationBegun(trunkater) => trunkater.deleted_lines = 0

\* an accessibility tree whose footer reports more deleted lines than the
\* element ever had
C37_MoreDeletedThanLines ==
    /\ IsAXTree(trunkater0)
    /\ TruncationBegun(trunkater)
    /\ trunkater.deleted_lines > Len(OriginalLines)
    /\ LastLine(trunkater._prompt) = Footer(trunkater.deleted_lines)

----------------------------------------------------------------------------
(* Properties of the Diff element (SpecDiff, SpecDiffFair)                 *)

Constructed == diff_elem.built \/ diff_elem.exc.exc # "none"

\* a snapshot that is empty or absent
EmptyOrAbsent(snapshot) == snapshot.isNone \/ snapshot.v = <<>>

\* C18: when previous and new are equal the header is 'Identical' with an
\* empty list of changed lines; when previous is empty or absent (null) and
\* differs from new, the header is 'previous is empty' with an empty list of
\* changed lines, and construction does not fail.
C18_IdenticalOrPreviousEmpty ==
    Constructed =>
        /\ (diff_args.previous = diff_args.new) =>
               /\ diff_elem.built
               /\ diff_elem.header = "Identical"
               /\ diff_elem.diff_lines = <<>>
        /\ (EmptyOrAbsent(diff_args.previous)
            /\ diff_args.previous # diff_args.new) =>
               /\ diff_elem.built
               /\ diff_elem.header = "previous is empty"
               /\ diff_elem.diff_lines = <<>>

\* C18 as the code has it: an absent previous that differs from new makes
\* len(previous) fail; an empty one gives 'previous is empty'
C18_AbsentPreviousFails ==
    Constructed =>
        /\ (diff_args.previous = diff_args.new) =>
               /\ diff_elem.built
               /\ diff_elem.header = "Identical"
               /\ diff_elem.diff_lines = <<>>
        /\ (~diff_args.previous.isNone /\ diff_args.previous.v = <<>>
            /\ diff_args.previous # diff_args.new) =>
               /\ diff_elem.built
               /\ diff_elem.header = "previous is empty"
               /\ diff_elem.diff_lines = <<>>
        /\ (diff_args.previous.isNone /\ diff_args.previous # diff_args.new) =>
               /\ ~diff_elem.built
               /\ diff_elem.exc.exc = "TypeError"

\* one shrink() call on the Diff
DiffShrinkStep == diff_elem.built /\ diff_elem'.built

\* C19: each shrink() lowers max_line_diff by shrink_speed but never below 1;
\* for any initial max_line_diff >= 1 and any positive shrink_speed, after
\* enough shrink() calls max_line_diff is exactly 1 and stays 1.
C19_FloorAtOne ==
    /\ [][DiffShrinkStep =>
              /\ diff_elem'.max_line_diff >= 1
              /\ (diff_elem.max_line_diff - diff_elem.shrink_speed >= 1) =>
                     diff_elem'.max_line_diff
                         = diff_elem.max_line_diff - diff_elem.shrink_speed
              /\ (diff_elem.max_line_diff - diff_elem.shrink_speed < 1) =>
                     diff_elem'.max_line_diff = 1]_vars
    /\ [](diff_elem.built => diff_elem.max_line_diff >= 1)
    /\ [](diff_elem.built => <>[](diff_elem.max_line_diff = 1))

\* C19 witness: a Diff built with max_line_diff 4 and shrink_speed 3 is at 1
C19_Witness ==
    /\ diff_elem.built
    /\ diff_args.max_line_diff = 4
    /\ diff_args.shrink_speed = 3
    /\ diff_elem.max_line_diff = 1

\* the lines of the rendering of diff_elem after prefix and header
DiffBody ==
    LET lines == DiffPrompt(diff_elem)[1].lines
    IN  SubSeq(lines, 4, Len(lines))

\* C30: the rendering of a Diff shows at most max_line_diff changed lines,
\* the first ones in the order of the diff; when the diff has more changed
\* lines than max_line_diff, one note follows them whose number is the total
\* of changed lines minus max_line_diff; otherwise all changed lines are
\* shown and no note follows.
C30_CapAndTruncationNote ==
    diff_elem.built =>
        LET total == Len(diff_elem.diff_lines)
            cap == diff_elem.max_line_diff
        IN  IF total > cap
            THEN /\ Len(DiffBody) = cap + 1
                 /\ SubSeq(DiffBody, 1, cap) = SubSeq(diff_elem.diff_lines, 1, cap)
                 /\ DiffBody[cap + 1] = "Diff truncated, " \o ToString(total - cap)
                                            \o " changes now shown."
            ELSE DiffBody = diff_elem.diff_lines

\* a diff of three changed lines, shrunk to a cap of one: one line and the
\* note about two hidden lines
C30_Witness ==
    /\ diff_elem.built
    /\ diff_elem.max_line_diff < diff_args.max_line_diff
    /\ Len(diff_elem.diff_lines) > diff_elem.max_line_diff + 1
    /\ Len(DiffBody) = diff_elem.max_line_diff + 1

\* a diff with no more changed lines than the cap is rendered without a note
C30_NoNote ==
    /\ diff_elem.built
    /\ Len(diff_elem.diff_lines) >= 2
    /\ Len(diff_elem.diff_lines) <= diff_elem.max_line_diff
    /\ DiffBody = diff_elem.diff_lines

\* the line-level diff of the two snapshots diff_elem was constructed from
LineDiff ==
    LET a == splitlines(diff_args.previous.v)
        b == splitlines(diff_args.new.v)
    IN  Ndiff(a, 1, Len(a), b, 1, Len(b))

\* the lines of the line-level diff with one tag
Tagged(tag) == SelectSeq(LineDiff, LAMBDA line : line.tag = tag)

\* previous and new are texts, differ, and previous is not empty
DiffComputed ==
    /\ diff_elem.built
    /\ ~diff_args.previous.isNone /\ ~diff_args.new.isNone
    /\ diff_args.previous # diff_args.new
    /\ diff_args.previous.v # <<>>

\* a line both snapshots have begins with "+" or "-"
SignedContextLine ==
    \E i \in 1..Len(LineDiff) :
        LineDiff[i].tag = " " /\ LineDiff[i].text \in PlusTexts \cup MinusTexts

\* the header and the kept lines are those of the added and removed lines
OnlyChangedLinesKept ==
    LET changed == SelectSeq(LineDiff, LAMBDA line : line.tag # " ")
    IN  /\ diff_elem.diff_lines = [i \in 1..Len(changed) |-> DiffLine(changed[i])]
        /\ diff_elem.header = ToString(Len(Tagged("+"))) \o " lines added and "
                                  \o ToString(Len(Tagged("-")))
                                  \o " lines removed:"

\* C31: for snapshots that differ and are not empty, diff keeps exactly the
\* lines the line-level diff marks as added or removed, whatever the text of
\* the unchanged lines is, and the header counts the added and the removed
\* lines.
C31_OnlyChangedLinesKept == DiffComputed => OnlyChangedLinesKept

\* C31 as the code has it: it holds when no unchanged line begins with a sign
C31_UnlessSignedContextLine ==
    (DiffComputed /\ ~SignedContextLine) => OnlyChangedLinesKept

\* an unchanged line beginning with "+" is kept and counted as added
C31_ContextLineKept ==
    /\ DiffComputed
    /\ SignedContextLine
    /\ Len(diff_elem.diff_lines) > Len(Tagged("+")) + Len(Tagged("-"))

----------------------------------------------------------------------------
(* Properties of PromptElement visibility                                  *)

Accessed == access.elem \in ElementNames

AccessedVisible == is_visible(main_prompt.visible[access.elem], flags)

\* C12: for every prompt element, when its visibility evaluates to false its
\* prompt, abstract example and concrete example are the empty text and
\* parse_answer returns the empty mapping, raising nothing whatever the
\* answer is; when it is visible they are the element's own renderings and
\* its own parse.
C12_VisibilityGates ==
    Accessed =>
        IF AccessedVisible
        THEN /\ access.prompt = OwnPrompt(main_prompt, flags, access.elem)
             /\ access.abstract_ex = OwnAbstractEx(access.elem)
             /\ access.concrete_ex = OwnConcreteEx(access.elem)
             /\ access.parsed = OwnParse(flags, access.elem, access.answer)
        ELSE /\ access.prompt = <<>>
             /\ access.abstract_ex = <<>>
             /\ access.concrete_ex = <<>>
             /\ access.parsed.dict = EmptyDict
             /\ ~access.parsed.raised

\* an element that is not visible was handed an answer its own parse would
\* have found a tag in, and its own texts are not empty
C12_Witness ==
    /\ Accessed
    /\ ~AccessedVisible
    /\ OwnParse(flags, access.elem, access.answer).dict # EmptyDict
    /\ OwnAbstractEx(access.elem) # <<>>
    /\ access.parsed.dict = EmptyDict

\* the same for an element whose visibility is a callable reading the flags
C12_HiddenCallable ==
    ~(/\ Accessed
      /\ main_prompt.visible[access.elem].callable
      /\ ~AccessedVisible
      /\ OwnPrompt(main_prompt, flags, access.elem) # <<>>
      /\ access.prompt # <<>>)

\* the text has a segment tagged key
HasTag(text, key) == \E i \in 1..Len(text) : text[i].key = key

MainAccessed == Accessed /\ access.elem = "main"

\* C13: for all Flags configurations MainPrompt gates text and parse
\* together: with use_thought false no think example is rendered and the
\* parsed answer has no 'think' (with it true the example is there); the same
\* for use_memory and 'memory'; 'action' is required in every configuration,
\* and an answer is only ever rejected for its action, never for a missing
\* think or memory tag.
C13_TextAndParseGatedTogether ==
    MainAccessed =>
        /\ HasTag(access.prompt, "think") <=> flags.use_thought
        /\ ~flags.use_thought => "think" \notin DOMAIN access.parsed.dict
        /\ HasTag(access.prompt, "memory") <=> flags.use_memory
        /\ ~flags.use_memory => "memory" \notin DOMAIN access.parsed.dict
        /\ HasTag(access.prompt, "action")
        /\ ~access.parsed.raised => "action" \in DOMAIN access.parsed.dict
        /\ access.parsed.raised <=>
               \/ ~HasTag(access.answer, "action")
               \/ ToPythonCodeFails(JoinLines(FindAll(access.answer, "action")))

\* with use_thought false an answer that carries a think tag was accepted,
\* and its think tag was left out of the parsed answer
C13_Witness ==
    /\ MainAccessed
    /\ ~flags.use_thought
    /\ HasTag(access.answer, "think")
    /\ ~access.parsed.raised
    /\ DOMAIN access.parsed.dict = {"memory", "action"}

\* an answer with neither think nor memory is accepted where both are asked for
C13_MissingOptionalAccepted ==
    ~(/\ MainAccessed
      /\ flags.use_thought /\ flags.use_memory
      /\ ~HasTag(access.answer, "think")
      /\ access.parsed.raised
      /\ HasTag(access.answer, "action")
      /\ ~ToPythonCodeFails(JoinLines(FindAll(access.answer, "action"))))

\* the text has this line in one of its plain segments
HasLine(text, line) ==
    \E i \in 1..Len(text) :
        text[i].key = "" /\ \E j \in 1..Len(text[i].lines) : text[i].lines[j] = line

\* the error of the observation the MainPrompt was constructed for
CurrentError == obs_history[Len(obs_history)].last_action_error

ObservationRendered == Accessed /\ access.elem \in {"obs", "main"}

\* C26: the error block of the current step ('Error from previous action')
\* is rendered if and only if use_error_logs is set and the observation's
\* last-action error is not empty; an empty error suppresses the block for
\* every Flags configuration.
C26_ErrorBlockIffLoggedAndPresent ==
    ObservationRendered =>
        /\ HasLine(access.prompt, "## Error from previous action:")
               <=> (flags.use_error_logs /\ CurrentError # <<>>)
        /\ HasLine(access.prompt, "## Error from previous action:")
               => \A j \in 1..Len(CurrentError) :
                      HasLine(access.prompt, CurrentError[j])

\* the block is rendered with the error of the observation
C26_Witness ==
    /\ ObservationRendered
    /\ access.elem = "main"
    /\ flags.use_error_logs
    /\ CurrentError # <<>>
    /\ HasLine(access.prompt, "## Error from previous action:")
    /\ HasLine(access.prompt, CurrentError[1])

\* with use_error_logs set, an observation without error renders no block
C26_EmptyErrorSuppressed ==
    /\ ObservationRendered
    /\ flags.use_error_logs
    /\ CurrentError = <<>>
    /\ ~HasLine(access.prompt, "## Error from previous action:")

----------------------------------------------------------------------------
(* Properties of fit_tokens                                                *)

\* the root after i calls of its shrink
RECURSIVE ShrunkTimes(_, _, _)
ShrunkTimes(mp, fl, i) ==
    IF i = 0 THEN mp ELSE ShrunkTimes(MainPromptShrink(mp, fl), fl, i - 1)

\* the root as it was when fit_tokens was called
Root0 == fit.root0[1]

\* the rendering of the root after i shrink calls has token count <= budget
FitsAfter(i) ==
    count_tokens(Prompt(ShrunkTimes(Root0, flags, i), flags, "main"))
        <= fit_args.max_prompt_tokens.v

\* min(i*, max_iterations), i* the least number of shrink calls after which
\* the rendering fits
ExpectedShrinks ==
    IF \E i \in 0..fit_args.max_iterations : FitsAfter(i)
    THEN CHOOSE i \in 0..fit_args.max_iterations :
             FitsAfter(i) /\ \A j \in 0..(i - 1) : ~FitsAfter(j)
    ELSE fit_args.max_iterations

Returned == fit.done /\ fit.exc.exc = "none"

FitContract ==
    /\ fit.shrinks = (IF fit_args.max_prompt_tokens.isNone
                      THEN 0 ELSE ExpectedShrinks)
    /\ main_prompt = ShrunkTimes(Root0, flags, fit.shrinks)
    /\ (fit_args.max_prompt_tokens.isNone \/ FitsAfter(0)) =>
           /\ Returned
           /\ fit.shrinks = 0
           /\ fit.prompt = Prompt(Root0, flags, "main")
    /\ (~fit_args.max_prompt_tokens.isNone
        /\ Returned /\ fit.shrinks < fit_args.max_iterations) =>
           count_tokens(fit.prompt) <= fit_args.max_prompt_tokens.v

\* C20: fit_tokens performs exactly min(i*, max_iterations) shrink calls, i*
\* the least number of shrink calls after which the root's rendering has
\* token count <= budget; it performs no shrink call and returns the initial
\* rendering when the budget is unset or the initial rendering fits, and
\* whenever it returns before the cap what it returns fits the budget.
C20_ShrinkCallsAndFit == fit.done => FitContract

\* the same for the calls with max_iterations >= 1
C20_ShrinkCallsAndFitPositiveCap ==
    (fit.done /\ fit_args.max_iterations >= 1) => FitContract

\* truncation brought the rendering under the budget before the cap
C20_ShrunkToFit ==
    /\ Returned
    /\ fit.shrinks > HTMLStartTrunkateIteration
    /\ fit.shrinks < fit_args.max_iterations
    /\ ~FitsAfter(0)
    /\ count_tokens(fit.prompt) <= fit_args.max_prompt_tokens.v

\* no number of shrink calls brings the rendering under the budget (the
\* Trunkaters have settled long before DefaultMaxIterations calls)
NeverFits ==
    /\ ~fit_args.max_prompt_tokens.isNone
    /\ \A i \in 0..DefaultMaxIterations : ~FitsAfter(i)

\* what fit_tokens returned is the rendering of the root after some of the
\* shrink calls it made
ReturnedARendering ==
    \E i \in 0..fit.shrinks :
        fit.prompt = Prompt(ShrunkTimes(Root0, flags, i), flags, "main")

GracefulOnUnmetBudget ==
    /\ Returned
    /\ fit.shrinks <= fit_args.max_iterations
    /\ ReturnedARendering

\* C21: fit_tokens never raises because of an unmet budget: for every
\* max_iterations >= 0 and every budget that no amount of shrinking
\* satisfies, it makes at most max_iterations shrink calls and returns a
\* rendering of the root.
C21_NeverRaisesOnUnmetBudget ==
    (fit.done /\ NeverFits) => GracefulOnUnmetBudget

\* the same for the calls with max_iterations >= 1
C21_NeverRaisesPositiveCap ==
    (fit.done /\ NeverFits /\ fit_args.max_iterations >= 1)
        => GracefulOnUnmetBudget

\* C35: what fit_tokens returns is the rendering of the root as it is when
\* fit_tokens returns, every shrink call made included: also when it returns
\* after max_iterations shrink calls.
C35_ReturnsCurrentRendering ==
    Returned => fit.prompt = Prompt(main_prompt, flags, "main")

\* C35 as the code has it: what is returned before the cap is the current
\* rendering; after the cap it is the rendering made before the last shrink
\* call
C35_ReturnsRenderingBeforeLastShrink ==
    Returned =>
        IF fit_args.max_prompt_tokens.isNone
           \/ fit.shrinks < fit_args.max_iterations
        THEN fit.prompt = Prompt(main_prompt, flags, "main")
        ELSE fit.prompt
                 = Prompt(ShrunkTimes(Root0, flags, fit.shrinks - 1), flags, "main")

\* after the cap the root fits the budget and what was returned does not
C35_FittingRootStaleReturn ==
    /\ Returned
    /\ ~fit_args.max_prompt_tokens.isNone
    /\ fit.shrinks = fit_args.max_iterations
    /\ count_tokens(Prompt(main_prompt, flags, "main"))
           <= fit_args.max_prompt_tokens.v
    /\ count_tokens(fit.prompt) > fit_args.max_prompt_tokens.v

----------------------------------------------------------------------------
(* Properties of MainPrompt.shrink (SpecShrink)                            *)

\* a step that is one call of shrink on the constructed MainPrompt
ShrinkStep ==
    /\ main_prompt.built
    /\ main_prompt'.built
    /\ main_prompt' # main_prompt

\* the number of shrink calls a Diff of a history step has had: each one
\* lowers max_line_diff by the step's shrink_speed of 1 (fewer than
\* DefaultMaxLineDiff - 1 calls are made)
DiffShrinkCalls(d) == DefaultMaxLineDiff - d.max_line_diff

\* C22: one call of MainPrompt.shrink() is exactly one shrink() call on
\* every owned shrinkable descendant: the HTML and AXTree elements of the
\* current observation and, for every history step, its HTML diff and its
\* accessibility-tree diff, whichever of them are visible.
C22_OneShrinkCallEach ==
    [][ShrinkStep =>
          /\ main_prompt'.html.shrink_calls = main_prompt.html.shrink_calls + 1
          /\ main_prompt'.ax_tree.shrink_calls
                 = main_prompt.ax_tree.shrink_calls + 1
          /\ Len(main_prompt'.history_steps) = Len(main_prompt.history_steps)
          /\ \A i \in 1..Len(main_prompt.history_steps) :
                 /\ DiffShrinkCalls(main_prompt'.history_steps[i].html_diff)
                        = DiffShrinkCalls(main_prompt.history_steps[i].html_diff)
                          + 1
                 /\ DiffShrinkCalls(main_prompt'.history_steps[i].ax_tree_diff)
                        = DiffShrinkCalls(
                              main_prompt.history_steps[i].ax_tree_diff) + 1
      ]_vars

\* a MainPrompt with a history step, a hidden AXTree element, hidden diffs
\* and a hidden history has been shrunk three times, each of them three times
C22_Witness ==
    /\ main_prompt.built
    /\ Len(main_prompt.history_steps) >= 1
    /\ ~is_visible(main_prompt.ax_tree.visible, flags)
    /\ ~is_visible(main_prompt.history_steps[1].ax_tree_diff.visible, flags)
    /\ ~is_visible(main_prompt.visible["history"], flags)
    /\ main_prompt.html.shrink_calls = 3
    /\ main_prompt.ax_tree.shrink_calls = 3
    /\ DiffShrinkCalls(main_prompt.history_steps[1].html_diff) = 3
    /\ DiffShrinkCalls(main_prompt.history_steps[1].ax_tree_diff) = 3

\* the rendering of MainPrompt mp with the given texts in the places of its
\* observation and of its history
RenderingAround(mp, fl, obs_part, history_part) ==
    add_screenshot(mp, fl,
        Prompt(mp, fl, "instructions") \o obs_part \o history_part
        \o Prompt(mp, fl, "action_space")
        \o Prompt(mp, fl, "thought") \o Prompt(mp, fl, "memory")
        \o Plain(<<"", "# Abstract Example", "">>)
        \o AbstractEx(mp, fl, "thought") \o AbstractEx(mp, fl, "memory")
        \o AbstractEx(mp, fl, "action_space")
        \o Plain(<<"", "# Concrete Example", "">>)
        \o ConcreteEx(mp, fl, "thought") \o ConcreteEx(mp, fl, "memory")
        \o ConcreteEx(mp, fl, "action_space"))

Scaffolding == {"instructions", "action_space", "thought", "memory"}

\* the rendering is made of the scaffolding, the observation and the history
RenderingIsAroundParts ==
    main_prompt.built =>
        Prompt(main_prompt, flags, "main")
            = RenderingAround(main_prompt, flags,
                              Prompt(main_prompt, flags, "obs"),
                              Prompt(main_prompt, flags, "history"))

\* C23: MainPrompt.shrink(), applied any number of times, leaves the
\* rendered goal instructions, action-space description, abstract example
\* and concrete example as they were; the rendering changes in its
\* observation part and its history part only.
C23_ScaffoldingUnchanged ==
    [][ShrinkStep =>
          /\ \A name \in Scaffolding :
                 /\ Prompt(main_prompt', flags', name)
                        = Prompt(main_prompt, flags, name)
                 /\ AbstractEx(main_prompt', flags', name)
                        = AbstractEx(main_prompt, flags, name)
                 /\ ConcreteEx(main_prompt', flags', name)
                        = ConcreteEx(main_prompt, flags, name)
          /\ Prompt(main_prompt', flags', "main")
                 = RenderingAround(main_prompt, flags,
                                   Prompt(main_prompt', flags', "obs"),
                                   Prompt(main_prompt', flags', "history"))
      ]_vars

\* the MainPrompt as it was constructed
Unshrunk == MainPromptInit(obs_history, actions, memories, flags)

\* shrinking has changed both the observation part and the history part of
\* a rendering that shows the memory example
C23_Witness ==
    /\ main_prompt.built
    /\ access = NoAccess
    /\ flags.use_memory
    /\ Len(main_prompt.history_steps) >= 1
    /\ main_prompt.ax_tree.shrink_calls >= 1
    /\ Prompt(main_prompt, flags, "obs") # Prompt(Unshrunk, flags, "obs")
    /\ Prompt(main_prompt, flags, "history")
           # Prompt(Unshrunk, flags, "history")
    /\ HasTag(Prompt(main_prompt, flags, "main"), "memory")
    /\ Prompt(main_prompt, flags, "instructions")
           = Prompt(Unshrunk, flags, "instructions")

\* a step that reads renderings of an element
RenderStep == main_prompt.built /\ access'.elem \in ElementNames

\* C32: reading prompt, abstract_ex and concrete_ex of any element of the
\* MainPrompt leaves the MainPrompt as it was: every shrink counter
\* (shrink_calls, deleted_lines, max_line_diff) and every stored text; and
\* two readings of one element with no shrink in between return the same.
C32_RenderingHasNoEffect ==
    [][RenderStep =>
          /\ main_prompt' = main_prompt
          /\ obs_history' = obs_history
          /\ flags' = flags
          /\ (access.elem = access'.elem) =>
                 /\ access'.prompt = access.prompt
                 /\ access'.abstract_ex = access.abstract_ex
                 /\ access'.concrete_ex = access.concrete_ex]_vars

\* the MainPrompt was rendered after shrinks that deleted lines and lowered
\* the cap of a diff
C32_Witness ==
    /\ access.elem = "main"
    /\ main_prompt.built
    /\ main_prompt.ax_tree.shrink_calls >= 3
    /\ main_prompt.ax_tree.deleted_lines > 0
    /\ Len(main_prompt.history_steps) = 1
    /\ main_prompt.history_steps[1].html_diff.max_line_diff < DefaultMaxLineDiff
    /\ access.prompt = Prompt(main_prompt, flags, "main")
    /\ access.prompt # <<>>

\* a step that reads the renderings of the History element
HistoryRead == main_prompt.built /\ access' # access /\ access'.elem = "history"

\* the line a visible Error element of a history step begins with
StepErrorLine == "### Error from previous action:"

\* the conjunction the error line of history step i is shown under
StepErrorShown(i) ==
    /\ flags.use_error_logs
    /\ main_prompt.history_steps[i].current_obs.last_action_error # <<>>
    /\ flags.use_past_error_logs

\* C33: a visibility given as a callable is evaluated at every reading: the
\* History element is rendered exactly when flags.use_history holds at the
\* reading, and the error line of a history step exactly when the error and
\* the two error flags hold at the reading, whatever they were at
\* construction or at an earlier reading of the same element.
C33_CallableVisibilityReadAnew ==
    [][HistoryRead =>
          /\ (access'.prompt # <<>>) <=> flags.use_history
          /\ (access'.prompt # <<>> /\ Len(main_prompt.history_steps) = 1) =>
                 (HasLine(access'.prompt, StepErrorLine) <=> StepErrorShown(1))
          /\ access'.parsed.dict = EmptyDict
          /\ ~access'.parsed.raised]_vars

\* the History element was read twice: hidden the first time, rendered the
\* second time, use_history having been set in between
C33_Witness ==
    /\ access.elem = "history"
    /\ access.previous.elem = "history"
    /\ access.previous.prompt = <<>>
    /\ access.prompt # <<>>
    /\ flags.use_history

\* the error line of a history step was shown at one reading and not at the
\* next, use_past_error_logs having been cleared in between
C33_ErrorLineGone ==
    /\ access.elem = "history"
    /\ access.previous.elem = "history"
    /\ HasLine(access.previous.prompt, StepErrorLine)
    /\ access.prompt # <<>>
    /\ ~HasLine(access.prompt, StepErrorLine)
    /\ ~flags.use_past_error_logs

\* a MainPrompt no shrink call has touched
Fresh(mp) ==
    /\ mp.html.shrink_calls = 0 /\ mp.html.deleted_lines = 0
    /\ mp.ax_tree.shrink_calls = 0 /\ mp.ax_tree.deleted_lines = 0
    /\ \A i \in 1..Len(mp.history_steps) :
           /\ mp.history_steps[i].html_diff.max_line_diff = DefaultMaxLineDiff
           /\ mp.history_steps[i].ax_tree_diff.max_line_diff = DefaultMaxLineDiff

\* the observations the elements of the MainPrompt hold are those of
\* obs_history
HoldsObservations(mp) ==
    \A i \in 1..Len(mp.history_steps) :
        /\ mp.history_steps[i].previous_obs = obs_history[i]
        /\ mp.history_steps[i].current_obs = obs_history[i + 1]

\* C34: the MainPrompt a get_action call fits is a new one: its truncating
\* elements have shrink_calls = 0 and deleted_lines = 0 and hold the whole
\* text of the new observation, and its diffs have the initial
\* max_line_diff, whatever the shrink calls of earlier steps did; and the
\* shrink calls of a fit change no observation of obs_history.
C34_ShrinkStateNotCarriedOver ==
    /\ [][(obs_history' # obs_history /\ main_prompt'.built) =>
              /\ Fresh(main_prompt')
              /\ main_prompt'
                     = MainPromptInit(obs_history', actions, memories, flags)
         ]_vars
    /\ [][(main_prompt.built /\ main_prompt'.built /\ fit' # fit) =>
              obs_history' = obs_history]_vars
    /\ [](main_prompt.built => HoldsObservations(main_prompt))

\* the prompt of the second step is new although the fit of the first step
\* made twenty shrink calls, which deleted lines of its trees
C34_Witness ==
    /\ pc = "constructed"
    /\ Len(obs_history) = 2
    /\ fit.done
    /\ fit.shrinks = DefaultMaxIterations
    /\ Len(main_prompt.history_steps) = 1
    /\ Fresh(main_prompt)

\* the fit of a step has deleted lines and lowered the caps of the diffs
C34_Shrunk ==
    /\ pc = "fitted"
    /\ Len(main_prompt.history_steps) = 1
    /\ main_prompt.ax_tree.deleted_lines > 0
    /\ main_prompt.history_steps[1].ax_tree_diff.max_line_diff = 1
    /\ obs_history[2] \in StepObservations

----------------------------------------------------------------------------
(* Properties of parse_html_tags (SpecParse)                               *)

\* the contents of the tags with this key in the text of the call, in order
MatchesOf(key) ==
    SelectSeq([i \in 1..Len(parse_call.text) |->
                  IF parse_call.text[i].key = key
                  THEN Some(parse_call.text[i].lines) ELSE None],
              LAMBDA m : ~m.isNone)

RequiredKeys == Range(parse_call.keys)

RequestedKeys == Range(parse_call.keys) \cup Range(parse_call.optional_keys)

\* the keys that break the rule: a required key without a match, and without
\* merge_multiple a requested key with more than one
ViolatedKeys ==
    {key \in RequiredKeys : Len(MatchesOf(key)) = 0}
    \cup {key \in RequestedKeys :
             ~parse_call.merge_multiple /\ Len(MatchesOf(key)) > 1}

\* C24: parse_html_tags returns valid = true exactly when every required key
\* has at least one match and (merge_multiple is set or no requested key has
\* more than one match); when invalid, the message it returns has exactly one
\* line for each violated key (the result is a returned value, never a
\* raised error).
C24_ValidIffRuleMet ==
    parse_call.returned =>
        /\ parse_call.out.valid <=> ViolatedKeys = {}
        /\ Len(parse_call.out.retry_message) = Cardinality(ViolatedKeys)
        /\ \A key \in ViolatedKeys :
               \E i \in 1..Len(parse_call.out.retry_message) :
                   parse_call.out.retry_message[i] \in
                       {"Missing the key <" \o key \o "> in the answer.",
                        "Found multiple instances of the key " \o key
                            \o ". You should have only one of them."}

\* a call that is invalid for two keys, one missing and one repeated, while
\* an optional key is missing too
C24_Witness ==
    /\ parse_call.returned
    /\ ~parse_call.out.valid
    /\ Cardinality(ViolatedKeys) = 2
    /\ \E key \in RequiredKeys : Len(MatchesOf(key)) = 0
    /\ \E key \in RequestedKeys : Len(MatchesOf(key)) > 1
    /\ \E key \in Range(parse_call.optional_keys) : Len(MatchesOf(key)) = 0

\* C25: with merge_multiple every requested key that has m >= 1 matches is
\* mapped to its m contents joined by newlines, in order of occurrence;
\* without merge_multiple a key with more than one match makes the parse
\* invalid; a requested key with no match is absent from the mapping, and no
\* key outside keys and optional_keys is ever in it.
C25_MergeAndMapping ==
    parse_call.returned =>
        /\ DOMAIN parse_call.out.content_dict
               = {key \in RequestedKeys : Len(MatchesOf(key)) >= 1}
        /\ parse_call.merge_multiple =>
               \A key \in DOMAIN parse_call.out.content_dict :
                   parse_call.out.content_dict[key]
                       = Some(Flatten([i \in 1..Len(MatchesOf(key)) |->
                                          MatchesOf(key)[i].v]))
        /\ (~parse_call.merge_multiple
            /\ \E key \in RequestedKeys : Len(MatchesOf(key)) > 1)
               => ~parse_call.out.valid

\* with merge_multiple a key has two matches with different contents, another
\* requested key has none and the text has a tag that was not asked for
C25_Witness ==
    /\ parse_call.returned
    /\ parse_call.merge_multiple
    /\ \E key \in RequestedKeys :
           /\ Len(MatchesOf(key)) = 2
           /\ MatchesOf(key)[1] # MatchesOf(key)[2]
           /\ parse_call.out.content_dict[key]
                  = Some(MatchesOf(key)[1].v \o MatchesOf(key)[2].v)
    /\ \E key \in RequestedKeys : Len(MatchesOf(key)) = 0
    /\ \E key \in KeyNames \ RequestedKeys : Len(MatchesOf(key)) > 0

BothReturned == parse_call.returned /\ parse_call.raise_returned

\* C28: parse_html_tags_raise and parse_html_tags agree on every input: the
\* raising variant raises ParseError exactly when the value variant returns
\* valid = false, the exception carries the value variant's message, and
\* when valid it returns the value variant's mapping.
C28_RaiseAgreesWithValue ==
    BothReturned =>
        /\ parse_call.raise_out.raised <=> ~parse_call.out.valid
        /\ parse_call.raise_out.raised =>
               parse_call.raise_out.message = parse_call.out.retry_message
        /\ ~parse_call.raise_out.raised =>
               parse_call.raise_out.dict = parse_call.out.content_dict

\* both variants were called with merge_multiple on a text that repeats a
\* key, and on a text that misses a required key
C28_Witness ==
    /\ BothReturned
    /\ parse_call.merge_multiple
    /\ \E key \in RequestedKeys : Len(MatchesOf(key)) > 1
    /\ ~parse_call.raise_out.raised
    /\ parse_call.raise_out.dict # EmptyDict

\* the raising variant raised with a message of two lines
C28_RaisedWitness ==
    /\ BothReturned
    /\ parse_call.raise_out.raised
    /\ Len(parse_call.raise_out.message) = 2

----------------------------------------------------------------------------
(* Properties of agent construction (C27)                                  *)

\* a step of get_action: the observation is appended first
GetActionStep == obs_history' # obs_history

\* C27: flags whose action_space is none of the known ones give no agent:
\* WebResearchAgent(goal, flags) raises NotImplementedError, before the chat
\* model is ever invoked; and a get_action under such flags raises out of
\* the MainPrompt construction: it starts no retry, invokes no chat model
\* and appends no null-action step.
C27_UnknownActionSpaceFailsConstruction ==
    [][/\ (pc = "new" /\ flags.action_space \notin KnownActionSpaces)
            => /\ pc' = "no agent"
               /\ result' = Raised(Exc("NotImplementedError", 0))
               /\ chat_calls' = 0
               /\ actions' = <<>>
       /\ pc = "no agent" => UNCHANGED vars
       /\ (GetActionStep /\ flags.action_space \notin KnownActionSpaces)
            => /\ main_prompt'.exc.exc # "none"
               /\ ~main_prompt'.built
               /\ result' = Raised(main_prompt'.exc)
               /\ pc' = "idle"
               /\ UNCHANGED <<messages, tries, chat_calls, rate_limit_errors,
                              value, exception, wait_time>>
               /\ actions' = actions
               /\ memories' = memories
               /\ thoughts' = thoughts]_vars

\* the construction of an agent with an unknown action_space has failed
C27_Witness ==
    /\ pc = "no agent"
    /\ flags.action_space = UnknownActionSpace
    /\ result.kind = "raise"
    /\ result.exc.exc = "NotImplementedError"

\* a get_action of an existing agent was stopped by the ActionSpace element
C27_GetActionRaised ==
    /\ pc = "idle"
    /\ Len(obs_history) = 1
    /\ flags.action_space = UnknownActionSpace
    /\ result.kind = "raise"
    /\ result.exc.exc = "NotImplementedError"
    /\ actions = <<>>

----------------------------------------------------------------------------
(* Properties of the parser the agent hands to retry (SpecPrompt)          *)

\* the contents of the <key> tags of an answer, in order
TagContents(text, key) ==
    LET at == {i \in 1..Len(text) : text[i].key = key}
    IN  [n \in 1..Cardinality(at) |-> text[Kth(at, n)].lines]

\* the parser was called on an answer
ParserCalled == access.elem = "parser"

\* the answer has no <action> tag
ActionMissing == TagContents(access.answer, "action") = <<>>

\* the action of the answer is not one the action set maps to code
ActionUnmappable ==
    /\ ~ActionMissing
    /\ ToPythonCodeFails(Flatten(TagContents(access.answer, "action")))

\* C29: the parser made by create_parser reports an answer invalid exactly
\* when its <action> tag is missing or its action cannot be mapped to code:
\* <think> and <memory> tags, repeated or missing, never make it invalid.
\* A failure is returned as ({}, False, message), never raised, and an
\* accepted value has the key 'action'.
C29_InvalidOnlyForAction ==
    ParserCalled =>
        /\ access.parser_out.valid <=> ~(ActionMissing \/ ActionUnmappable)
        /\ ~access.parser_out.valid =>
               /\ access.parser_out.value = Some(EmptyDict)
               /\ access.parser_out.retry_message # Plain(<<>>)
        /\ access.parser_out.valid =>
               /\ "action" \in DOMAIN access.parser_out.value.v
               /\ access.parser_out.retry_message = Plain(<<>>)
        /\ access.parser_out = AgentParser(flags, access.answer)

\* an answer with two <think> and two <memory> tags is accepted by the
\* parser of a prompt that asks for both
C29_Witness ==
    /\ ParserCalled
    /\ flags.use_thought /\ flags.use_memory
    /\ Len(TagContents(access.answer, "think")) = 2
    /\ Len(TagContents(access.answer, "memory")) = 2
    /\ access.parser_out.valid
    /\ DOMAIN access.parser_out.value.v = {"think", "memory", "action"}

\* an answer without a <think> tag is accepted by a prompt that asks for one
C29_MissingOptionalAccepted ==
    /\ ParserCalled
    /\ flags.use_thought /\ flags.use_memory
    /\ TagContents(access.answer, "think") = <<>>
    /\ TagContents(access.answer, "memory") # <<>>
    /\ access.parser_out.valid

\* an answer without an <action> tag is returned as invalid with {}
C29_MissingActionReturned ==
    /\ ParserCalled
    /\ ActionMissing
    /\ ~access.parser_out.valid
    /\ access.parser_out.value = Some(EmptyDict)

----------------------------------------------------------------------------
(* Properties of get_action (SpecAgent)                                    *)

LengthsAgree(n_obs, n_actions, n_memories) ==
    n_obs = n_actions + 1 /\ n_obs = n_memories + 1

\* C8: whenever a get_action call constructs MainPrompt, the histories it is
\* constructed from satisfy len(obs_history) == len(actions) + 1
\* == len(memories) + 1, also after a call that propagated an exception.
C8_LengthsAtConstruction ==
    (built_from # <<0, 0, 0>>) =>
        LengthsAgree(built_from[1], built_from[2], built_from[3])

\* the result of get_action hands the text to the caller
ResultCarries(text) ==
    \E i \in 1..Len(result.chat_messages) :
        result.chat_messages[i].content = text

\* a get_action call whose retry budget was exhausted has ended
Exhausted == parser = "agent" /\ pc = "ValueError"

\* C9, what the agent does with the histories: get_action does not raise, it
\* returns the null action and has appended a null action, memory and thought
C9_NullStepRecorded ==
    Exhausted =>
        /\ result.kind = "return"
        /\ result.action.isNone
        /\ result.think.isNone
        /\ Len(actions) = built_from[2] + 1
        /\ Len(memories) = built_from[3] + 1
        /\ actions[Len(actions)].isNone
        /\ memories[Len(memories)].isNone
        /\ thoughts[Len(thoughts)].isNone

\* C9: when the retry budget is exhausted, get_action does not raise, appends
\* a null action, memory and thought, and returns a result carrying the null
\* action together with the explanatory error message.
C9_NullActionWithMessage ==
    Exhausted =>
        /\ C9_NullStepRecorded
        /\ ResultCarries(Str(exception))

----------------------------------------------------------------------------
(* Properties of the prompt construction (SpecPrompt)                      *)

\* C10: constructing MainPrompt (and so History) from histories that violate
\* len(obs_history) == len(actions) + 1 == len(memories) + 1 fails with the
\* assertion before any history step is built, and nothing is constructed.
C10_PreconditionFailure ==
    (pc = "constructed"
     /\ ~LengthsAgree(Len(obs_history), Len(actions), Len(memories))) =>
        /\ main_prompt.exc.exc = "AssertionError"
        /\ main_prompt.history_steps = <<>>
        /\ ~main_prompt.built

\* C10 witness: two observations, two actions and one memory
C10_Witness ==
    /\ pc = "constructed"
    /\ Len(obs_history) = 2
    /\ Len(actions) = 2
    /\ Len(memories) = 1
    /\ main_prompt.exc.exc = "AssertionError"

\* C11: for every observation history of length n >= 1 with n-1 actions and
\* n-1 memories and every Flags value, constructing MainPrompt succeeds and
\* its History holds exactly n-1 steps, step i built from observations i-1
\* and i, action i-1 and memory i-1.
C11_HistoryStepsBuilt ==
    (pc = "constructed" /\ Len(obs_history) >= 1
     /\ LengthsAgree(Len(obs_history), Len(actions), Len(memories))) =>
        /\ main_prompt.exc.exc = "none"
        /\ main_prompt.built
        /\ Len(main_prompt.history_steps) = Len(obs_history) - 1
        /\ \A i \in 1..(Len(obs_history) - 1) :
               /\ main_prompt.history_steps[i].previous_obs = obs_history[i]
               /\ main_prompt.history_steps[i].current_obs = obs_history[i + 1]
               /\ main_prompt.history_steps[i].action = actions[i]
               /\ main_prompt.history_steps[i].memory = memories[i]

\* C11 as the code has it: the construction succeeds for a history of one
\* observation, and fails in the first HistoryStep for every longer one
C11_OnlyFirstStepBuilds ==
    (pc = "constructed"
     /\ LengthsAgree(Len(obs_history), Len(actions), Len(memories))) =>
        IF Len(obs_history) = 1
        THEN main_prompt.built /\ main_prompt.history_steps = <<>>
        ELSE /\ main_prompt.exc.exc = "AttributeError"
             /\ ~main_prompt.built
             /\ main_prompt.history_steps = <<>>

----------------------------------------------------------------------------
(* Properties of a get_action call that returns (SpecAgent)                *)

\* a get_action call has returned: with the accepted answer, or with the
\* null action after the retries were exhausted
GetActionReturned == parser = "agent" /\ pc \in {"returned", "ValueError"}

\* the step in which a get_action call returns
ReturnStep == InCall /\ pc' \in {"returned", "ValueError"}

\* the message list of the call: the system message and the prompt, then
\* each rejected reply with its correction, then the accepted reply if any
ExchangeOf(chat_messages) ==
    /\ Len(chat_messages)
           = 2 + 2 * tries + (IF pc = "returned" THEN 1 ELSE 0)
    /\ chat_messages[1] = SystemMessage(SystemPromptText)
    /\ chat_messages[2] = HumanMessage(FittedPrompt(main_prompt))
    /\ \A i \in 3..Len(chat_messages) :
           IF i % 2 = 1
           THEN /\ chat_messages[i].role = "ai"
                /\ AgentParser(flags, chat_messages[i].content).valid
                       <=> (i = Len(chat_messages) /\ pc = "returned")
           ELSE chat_messages[i]
                    = HumanMessage(AgentParser(flags, chat_messages[i - 1].content)
                                       .retry_message)
    /\ chat_messages = messages

\* C38: a get_action call that returns, with a valid answer or after the
\* retries were exhausted, has appended exactly one entry to each of
\* obs_history, actions, memories and thoughts and changed no earlier entry;
\* and the message list of the returned AgentInfo is the system message and
\* the prompt followed by every reply and correction of the call, in order.
C38_OneEntryEachAndExchange ==
    /\ [][/\ IsPrefix(obs_history, obs_history')
          /\ IsPrefix(actions, actions')
          /\ IsPrefix(memories, memories')
          /\ IsPrefix(thoughts, thoughts')
          /\ InCall => obs_history' = obs_history
          /\ ReturnStep =>
                 /\ Len(actions') = Len(actions) + 1
                 /\ Len(memories') = Len(memories) + 1
                 /\ Len(thoughts') = Len(thoughts) + 1
          /\ (InCall /\ ~ReturnStep) =>
                 UNCHANGED <<actions, memories, thoughts>>]_vars
    /\ [](GetActionReturned =>
              /\ result.kind = "return"
              /\ Len(obs_history) = built_from[1]
              /\ Len(actions) = built_from[2] + 1
              /\ Len(memories) = built_from[3] + 1
              /\ Len(thoughts) = Len(actions)
              /\ result.action = actions[Len(actions)]
              /\ result.think = thoughts[Len(thoughts)]
              /\ ExchangeOf(result.chat_messages))

\* a call returned the third reply after two rejected ones: seven messages
C38_Witness ==
    /\ GetActionReturned
    /\ pc = "returned"
    /\ tries = 2
    /\ Len(result.chat_messages) = 7
    /\ Len(obs_history) = 1 /\ Len(actions) = 1 /\ Len(thoughts) = 1
    /\ ~result.action.isNone

\* a call returned the null action: four replies and four corrections
C38_ExhaustedWitness ==
    /\ GetActionReturned
    /\ pc = "ValueError"
    /\ Len(result.chat_messages) = 2 + 2 * AgentNRetry
    /\ Len(actions) = 1
    /\ result.action.isNone

====
